---- MODULE Spec2Model ----
(***************************************************************************)
(* Geographic patient placement (geo-owl).                                 *)
(*                                                                         *)
(* The model covers the floor parser (normalize_floor), the geography      *)
(* table (get_geographic_teams) and the two optimize_placements variants:  *)
(*   "equity"  src/geo_placer.py       (caps, equity limit, census gap)    *)
(*   "scored"  src/code/geo_placer.py  (weighted score per team)           *)
(*                                                                         *)
(* A Python str is a sequence of one-character strings, so that strip,     *)
(* upper, substring tests and the regular expressions are computed on the  *)
(* characters.  Python None is the value None below.                       *)
(***************************************************************************)
EXTENDS Integers, Sequences, FiniteSets, TLC

VARIABLES
    \* ---- floor parsing and table lookup (normalize_floor, get_geographic_teams)
    location,         \* the raw location string handed to normalize_floor
    floor,            \* the floor label returned / handed to get_geographic_teams
    geo,              \* the list returned by get_geographic_teams
    fpc,              \* position: "idle", "parse", "parsed", "lookup", "..._done"
    \* ---- one optimize_placements call
    variant,          \* which copy of optimize_placements runs
    patients,         \* argument: the patient list
    current_census,   \* argument: the census dict (a function on the teams it has)
    closed_teams,     \* argument: the closed-team set
    pc,               \* position: "idle", "start", "loop", "done"
    patients_sorted,  \* local: sorted(patients, key=...)
    idx,              \* local: position of the for loop in patients_sorted
    census,           \* local: running census (current_census.copy())
    new_assignments,  \* local: new patients per team in this pass
    assignments,      \* local: the list that is returned
    warnings,         \* patients skipped with a printed WARNING
    twin,             \* a second call on the same arguments (determinism)
    \* ---- one analyze_patients call (it shares patients, closed_teams, pc, idx)
    wrong_team,       \* local: the (patient, acceptable teams) pairs
    ok_team,          \* local: the patients already on a geographic team
    \* ---- the recommendation sweep that follows analyze_patients
    team_census,      \* the census counted from the patients' current teams
    projected_census, \* the census as the recommended moves change it
    recommendations   \* the list of (patient, recommended team or NoTeam)

vars == <<location, floor, geo, fpc, variant, patients, current_census,
          closed_teams, pc, patients_sorted, idx, census, new_assignments,
          assignments, warnings, twin, wrong_team, ok_team, team_census,
          projected_census, recommendations>>

floorVars == <<location, floor, geo, fpc>>
sweepVars == <<team_census, projected_census, recommendations>>
shuffleVars == <<wrong_team, ok_team, team_census, projected_census, recommendations>>
callVars == <<variant, patients, current_census, closed_teams, pc,
              patients_sorted, idx, census, new_assignments, assignments,
              warnings, twin>>

----------------------------------------------------------------------------
(* Characters and strings *)

\* The characters used, in ASCII order (Python compares str by code point).
Alphabet ==
    <<" ", "*", "-",
      "0", "1", "2", "3", "4", "5", "6", "7", "8", "9", "?",
      "A", "B", "C", "D", "E", "F", "G", "H", "I", "J", "K", "L", "M",
      "N", "O", "P", "Q", "R", "S", "T", "U", "V", "W", "X", "Y", "Z",
      "a", "b", "c", "d", "e", "f", "g", "h", "i", "j", "k", "l", "m",
      "n", "o", "p", "q", "r", "s", "t", "u", "v", "w", "x", "y", "z">>

Chars == {Alphabet[k] : k \in 1..Len(Alphabet)}

Code == [c \in Chars |-> CHOOSE k \in 1..Len(Alphabet) : Alphabet[k] = c]

IsDigit(c) == Code[c] >= Code["0"] /\ Code[c] <= Code["9"]
IsUpperLetter(c) == Code[c] >= Code["A"] /\ Code[c] <= Code["Z"]
IsLowerLetter(c) == Code[c] >= Code["a"] /\ Code[c] <= Code["z"]
IsSpace(c) == c = " "
\* \w of the re module: letters, digits (and "_", not in the alphabet)
IsWord(c) == IsDigit(c) \/ IsUpperLetter(c) \/ IsLowerLetter(c)
DigitVal(c) == Code[c] - Code["0"]

\* Python None (the floor of a patient that has none)
None == <<"None">>

\* str.upper()
UpperChar(c) ==
    IF IsLowerLetter(c) THEN Alphabet[Code[c] - Code["a"] + Code["A"]] ELSE c
Upper(s) == [k \in 1..Len(s) |-> UpperChar(s[k])]

\* str.strip()
Strip(s) ==
    LET keep == {k \in 1..Len(s) : ~IsSpace(s[k])}
    IN  IF keep = {} THEN <<>>
        ELSE LET lo == CHOOSE k \in keep : \A m \in keep : k <= m
                 hi == CHOOSE k \in keep : \A m \in keep : k >= m
             IN  SubSeq(s, lo, hi)

\* w in s
Contains(s, w) ==
    \E k \in 1..(Len(s) - Len(w) + 1) : SubSeq(s, k, k + Len(w) - 1) = w

\* s < t for Python str (lexicographic by code point)
RECURSIVE StrLess(_, _)
StrLess(s, t) ==
    IF t = <<>> THEN FALSE
    ELSE IF s = <<>> THEN TRUE
    ELSE IF s[1] # t[1] THEN Code[s[1]] < Code[t[1]]
    ELSE StrLess(Tail(s), Tail(t))

\* the least element of a non-empty set of integers
Least(S) == CHOOSE k \in S : \A m \in S : k <= m

\* index of the last character of the run of digits that starts at k
RECURSIVE DigitsEnd(_, _)
DigitsEnd(s, k) ==
    IF k < Len(s) /\ IsDigit(s[k + 1]) THEN DigitsEnd(s, k + 1) ELSE k

\* first index >= k that holds no whitespace (Len(s)+1 when there is none)
RECURSIVE SkipSpace(_, _)
SkipSpace(s, k) ==
    IF k <= Len(s) /\ IsSpace(s[k]) THEN SkipSpace(s, k + 1) ELSE k

----------------------------------------------------------------------------
(* normalize_floor *)

BOYER == <<"B", "O", "Y", "E", "R">>
IMCU == <<"I", "M", "C", "U">>

\* re.sub(r'[A-Z]$', '', original)
strip_bed_suffix(original) ==
    IF original # <<>> /\ IsUpperLetter(original[Len(original)])
    THEN SubSeq(original, 1, Len(original) - 1)
    ELSE original

\* re.search(r'(\d+)\s*([EW]|EAST|WEST)', s): the start positions that match.
\* \d+ is greedy; giving digits back never helps, the next character being a
\* digit.  EAST and WEST begin with E and W, so [EW] decides.
direction_starts(s) ==
    {k \in 1..Len(s) :
        /\ IsDigit(s[k])
        /\ LET d == SkipSpace(s, DigitsEnd(s, k) + 1)
           IN  d <= Len(s) /\ s[d] \in {"E", "W"}}

\* the match of the leftmost start: group(1) and group(2)[0]
direction_match(s) ==
    LET k == Least(direction_starts(s))
        e == DigitsEnd(s, k)
    IN  [floor_num |-> SubSeq(s, k, e), direction |-> s[SkipSpace(s, e + 1)]]

\* re.search(r'\b(\d)(\d{2})\b', s): the start positions that match
room_starts(s) ==
    {k \in 1..(Len(s) - 2) :
        /\ IsDigit(s[k]) /\ IsDigit(s[k + 1]) /\ IsDigit(s[k + 2])
        /\ (k = 1 \/ ~IsWord(s[k - 1]))
        /\ (k + 2 = Len(s) \/ ~IsWord(s[k + 3]))}

room_match(s) ==
    LET k == Least(room_starts(s))
    IN  [floor_num |-> <<s[k]>>,
         room_num |-> 10 * DigitVal(s[k + 1]) + DigitVal(s[k + 2])]

\* re.search(r'FLOOR\s*(\d+)\s*(EAST|WEST|E|W)', s)
floor_word_starts(s) ==
    {k \in 1..(Len(s) - 4) :
        /\ SubSeq(s, k, k + 4) = <<"F", "L", "O", "O", "R">>
        /\ LET n == SkipSpace(s, k + 5)
           IN  /\ n <= Len(s) /\ IsDigit(s[n])
               /\ LET d == SkipSpace(s, DigitsEnd(s, n) + 1)
                  IN  d <= Len(s) /\ s[d] \in {"E", "W"}}

floor_word_match(s) ==
    LET k == Least(floor_word_starts(s))
        n == SkipSpace(s, k + 5)
        e == DigitsEnd(s, n)
    IN  [floor_num |-> SubSeq(s, n, e), direction |-> s[SkipSpace(s, e + 1)]]

\* a plausible slip: the ends of the West and East ranges moved by one
room_label_offbyone(floor_num, room_num) ==
    IF floor_num = <<"7">> /\ room_num >= 50 THEN BOYER
    ELSE IF floor_num = <<"8">> /\ room_num >= 50 THEN BOYER
    ELSE IF floor_num = <<"9">> THEN BOYER
    ELSE IF 1 <= room_num /\ room_num < 20 THEN floor_num \o <<"W">>
    ELSE IF 30 <= room_num /\ room_num <= 50 THEN floor_num \o <<"E">>
    ELSE floor_num \o <<"?">>

\* lines 155-171: the label of a room number
room_label(floor_num, room_num) ==
    IF floor_num = <<"7">> /\ room_num >= 50 THEN BOYER
    ELSE IF floor_num = <<"8">> /\ room_num >= 50 THEN BOYER
    ELSE IF floor_num = <<"9">> THEN BOYER
    ELSE IF 1 <= room_num /\ room_num <= 20 THEN floor_num \o <<"W">>
    ELSE IF 30 <= room_num /\ room_num < 50 THEN floor_num \o <<"E">>
    ELSE floor_num \o <<"?">>

normalize_floor(loc) ==
    LET original == Upper(Strip(loc))
        stripped == strip_bed_suffix(original)
    IN  IF Contains(original, IMCU) THEN IMCU
        ELSE IF \/ Contains(original, <<"O", "V", "E", "R", "N", "I", "G", "H", "T">>)
                \/ Contains(original, <<"O", "N", "R">>)
                \/ Contains(original, <<"R", "E", "C", "O", "V", "E", "R", "Y">>)
             THEN BOYER
        ELSE IF \/ Contains(original, <<"E", "D">>)
                \/ Contains(original, <<"E", "M", "E", "R", "G", "E", "N", "C", "Y">>)
                \/ Contains(original, <<"E", "R", " ">>)
             THEN None
        ELSE IF Contains(original, BOYER) THEN BOYER
        ELSE IF direction_starts(stripped) # {}
             THEN LET m == direction_match(stripped)
                  IN  IF m.floor_num = <<"9">> /\ m.direction = "W" THEN BOYER
                      ELSE m.floor_num \o <<m.direction>>
        ELSE IF room_starts(stripped) # {}
             THEN LET m == room_match(stripped)
                  IN  room_label(m.floor_num, m.room_num)
        ELSE IF floor_word_starts(stripped) # {}
             THEN LET m == floor_word_match(stripped)
                  IN  m.floor_num \o <<m.direction>>
        ELSE None

----------------------------------------------------------------------------
(* Geography table and get_geographic_teams *)

FLOOR_TO_TEAMS ==
    (<<"3", "W">> :> <<1, 2, 3>>) @@ (<<"3", "E">> :> <<1, 2, 3>>) @@
    (<<"4", "W">> :> <<4, 11>>) @@ (<<"4", "E">> :> <<4, 11>>) @@
    (<<"5", "W">> :> <<5, 10>>) @@ (<<"5", "E">> :> <<5, 10>>) @@
    (<<"6", "W">> :> <<6, 12>>) @@ (<<"6", "E">> :> <<6, 12>>) @@
    (<<"7", "W">> :> <<7, 9>>) @@ (<<"7", "E">> :> <<7, 9>>) @@
    (<<"8", "E">> :> <<8, 13>>) @@ (<<"8", "W">> :> <<8, 13>>) @@
    (IMCU :> <<1, 2, 3>>) @@ (BOYER :> <<12, 6>>)

ALL_TEAMS == <<1, 2, 3, 4, 5, 6, 7, 8, 9, 10, 11, 12, 13, 14, 15>>
OVERFLOW_TEAMS == <<14, 15>>
IMCU_TEAMS == <<1, 2, 3>>

\* the elements of a list
ToSet(seq) == {seq[k] : k \in 1..Len(seq)}
\* x in seq
In(x, seq) == \E k \in 1..Len(seq) : seq[k] = x

Teams == ToSet(ALL_TEAMS)

\* Python truthiness of a floor: None and '' are false
Truthy(f) == f # None /\ f # <<>>

\* FLOOR_TO_TEAMS.get(key, [])
table_get(key) == IF key \in DOMAIN FLOOR_TO_TEAMS THEN FLOOR_TO_TEAMS[key] ELSE <<>>

\* list(set(...)): a set has no order of its own, so the list is any ordering
\* of its elements
list_of_set(S) ==
    IF S = {} THEN {<<>>}
    ELSE {s \in [1..Cardinality(S) -> S] :
            \A a, b \in 1..Cardinality(S) : a # b => s[a] # s[b]}

\* a plausible slip: the two lists joined without the set, teams repeated
get_geographic_teams_no_set(f) ==
    IF ~Truthy(f) THEN {<<>>}
    ELSE IF f \in DOMAIN FLOOR_TO_TEAMS THEN {FLOOR_TO_TEAMS[f]}
    ELSE IF f[Len(f)] = "?"
         THEN LET floor_num == SubSeq(f, 1, Len(f) - 1)
              IN  {table_get(floor_num \o <<"E">>) \o table_get(floor_num \o <<"W">>)}
    ELSE {<<>>}

\* get_geographic_teams(floor): the lists the call can return (one list,
\* except for an ambiguous floor, whose list comes out of a set)
get_geographic_teams(f) ==
    IF ~Truthy(f) THEN {<<>>}
    ELSE IF f \in DOMAIN FLOOR_TO_TEAMS THEN {FLOOR_TO_TEAMS[f]}
    ELSE IF f[Len(f)] = "?"
         THEN LET floor_num == SubSeq(f, 1, Len(f) - 1)
                  east_teams == table_get(floor_num \o <<"E">>)
                  west_teams == table_get(floor_num \o <<"W">>)
              IN  list_of_set(ToSet(east_teams \o west_teams))
    ELSE {<<>>}

----------------------------------------------------------------------------
(* Inputs of the floor parser and of the table lookup *)

DigitChars == {"0", "1", "2", "3", "4", "5", "6", "7", "8", "9"}
UpperLetters == {c \in Chars : IsUpperLetter(c)}
\* bed suffixes tried: every capital letter and a few small ones
SuffixLetters == UpperLetters \cup {"a", "b", "e", "w"}

\* the canonical floor labels (the keys of FLOOR_TO_TEAMS)
CanonicalLabels == DOMAIN FLOOR_TO_TEAMS

\* three-digit room numbers, bare and with one bed-suffix letter
RoomNumbers == {<<f, a, b>> : f \in DigitChars, a \in DigitChars, b \in DigitChars}
RoomLocations == RoomNumbers \cup {r \o <<x>> : r \in RoomNumbers, x \in SuffixLetters}

\* other spellings seen at the prompt
OtherLocations ==
    { <<"5", " ", "E", "a", "s", "t">>, <<"7", " ", "W", "e", "s", "t">>,
      <<"9", " ", "W", "e", "s", "t">>, <<"5", "E", "-", "5", "1", "2">>,
      <<"E", "D">>, <<"E", "D", "-", "i", "n", "t", "a", "k", "e">>,
      <<"E", "R", " ", "5">>, <<"B", "o", "y", "e", "r">>,
      <<"O", "N", "R">>, <<"i", "m", "c", "u", " ", "3">>,
      <<"F", "L", "O", "O", "R", " ", "5", " ", "E", "A", "S", "T">>,
      <<"F", "l", "o", "o", "r", " ", "6">>,
      <<" ", "3", "1", "2", "a", " ">>, <<"x", " ", "3", "1", "2", "A">>,
      <<"3", "1", "2", "0">>, <<"1", "2">>, <<"3", "W", "*">>,
      <<"9", "W", "-", "1">>, <<"M", "A", "I", "N">>, <<>> }

LocationInputs == CanonicalLabels \cup RoomLocations \cup OtherLocations

\* floor labels handed to get_geographic_teams directly
FloorInputs ==
    CanonicalLabels \cup {<<d, "?">> : d \in DigitChars}
        \cup {None, <<>>, <<"?">>, <<"2", "W">>, <<"9", "E">>, <<"1", "0", "?">>}

----------------------------------------------------------------------------
(* State machine of the floor parser *)

\* the values the placement variables keep while only the parser runs
CallIdle ==
    /\ variant = "none" /\ patients = <<>> /\ current_census = <<>>
    /\ closed_teams = {} /\ pc = "idle" /\ patients_sorted = <<>> /\ idx = 0
    /\ census = <<>> /\ new_assignments = <<>> /\ assignments = <<>>
    /\ warnings = <<>> /\ twin = <<>>

\* the values the locals of analyze_patients keep while it does not run
ShuffleIdle ==
    /\ wrong_team = <<>> /\ ok_team = <<>>
    /\ team_census = <<>> /\ projected_census = <<>> /\ recommendations = <<>>

\* the values the parser variables keep while only a placement runs
FloorIdle == location = None /\ floor = None /\ geo = <<>> /\ fpc = "idle"

InitFloor ==
    /\ \/ location \in LocationInputs /\ floor = None /\ fpc = "parse"
       \/ location = None /\ floor \in FloorInputs /\ fpc = "lookup"
    /\ geo = <<>>
    /\ CallIdle
    /\ ShuffleIdle

\* floor = normalize_floor(location)
ParseLocation ==
    /\ fpc = "parse"
    /\ floor' = normalize_floor(location)
    /\ fpc' = "parsed"
    /\ UNCHANGED <<location, geo>>
    /\ UNCHANGED callVars
    /\ UNCHANGED shuffleVars

\* geo = get_geographic_teams(floor)
LookupTeams ==
    /\ fpc \in {"parsed", "lookup"}
    /\ \E g \in get_geographic_teams(floor) : geo' = g
    /\ fpc' = IF fpc = "parsed" THEN "parsed_done" ELSE "lookup_done"
    /\ UNCHANGED <<location, floor>>
    /\ UNCHANGED callVars
    /\ UNCHANGED shuffleVars

NextFloor == ParseLocation \/ LookupTeams

SpecFloor == InitFloor /\ [][NextFloor]_vars

----------------------------------------------------------------------------
(* Capacity policy and list helpers *)

IMCU_CAP == 10
SOFT_CAP == 14
MAX_NEW_BEFORE_SPREAD == 3
MAX_CENSUS_GAP == 4
\* src/code/geo_placer.py: the weights are the floats 1.0, 1.0, 3.0, 10.0; every
\* score is a sum of integers, so integer arithmetic is exact
CENSUS_WEIGHT == 1
REDIS_WEIGHT == 1
GEO_PENALTY == 3
IMCU_PENALTY == 10

\* a plausible slip: the default of a missing entry is 1
Get_default_one(c, t) == IF t \in DOMAIN c THEN c[t] ELSE 1

\* census.get(t, 0)
Get(c, t) == IF t \in DOMAIN c THEN c[t] ELSE 0

\* a plausible slip: the count is stepped once more on the way in
Put_stepped_twice(c, t, v) ==
    [x \in (DOMAIN c) \cup {t} |-> IF x = t THEN v + 1 ELSE c[x]]

\* census[t] = v (adds the key when the dict has none)
Put(c, t, v) == [x \in (DOMAIN c) \cup {t} |-> IF x = t THEN v ELSE c[x]]

\* index of the first least entry of keys, scanning from k with best so far
RECURSIVE first_min(_, _, _)
first_min(keys, k, best) ==
    IF k > Len(keys) THEN best
    ELSE first_min(keys, k + 1, IF keys[k] < keys[best] THEN k ELSE best)

\* min(seq, key=lambda t: census.get(t, 0)): the first element of least census
MinBy(seq, c) ==
    LET keys == [k \in 1..Len(seq) |-> Get(c, seq[k])]
    IN  seq[first_min(keys, 2, 1)]

\* a < b for the tuples (score, census, is_not_geo) that team_score returns
TripleLess(a, b) ==
    \/ a[1] < b[1]
    \/ a[1] = b[1] /\ a[2] < b[2]
    \/ a[1] = b[1] /\ a[2] = b[2] /\ a[3] < b[3]

RECURSIVE first_min_triple(_, _, _)
first_min_triple(keys, k, best) ==
    IF k > Len(keys) THEN best
    ELSE first_min_triple(keys, k + 1,
                          IF TripleLess(keys[k], keys[best]) THEN k ELSE best)

\* min(seq, key=team_score), keys[k] being team_score(seq[k])
MinByTriple(seq, keys) == seq[first_min_triple(keys, 2, 1)]

\* a plausible slip: the closed teams are not taken out
open_teams_all(closed) == ALL_TEAMS

\* open_teams = [t for t in ALL_TEAMS if t not in closed_teams]
open_teams(closed) == SelectSeq(ALL_TEAMS, LAMBDA t : t \notin closed)

\* regular_open_teams = [t for t in open_teams if t not in OVERFLOW_TEAMS]
regular_open_teams(closed) ==
    SelectSeq(open_teams(closed), LAMBDA t : t \notin ToSet(OVERFLOW_TEAMS))

\* a plausible slip: the geographic teams are used as the table gives them
open_geo_teams_unfiltered(geo_teams_raw, closed) == geo_teams_raw

\* geo_teams = [t for t in geo_teams_raw if t not in closed_teams]
open_geo_teams(geo_teams_raw, closed) ==
    SelectSeq(geo_teams_raw, LAMBDA t : t \notin closed)

----------------------------------------------------------------------------
(* Patient order *)

\* p.floor or 'ZZZ'
floor_or_zzz(p) == IF Truthy(p.floor) THEN p.floor ELSE <<"Z", "Z", "Z">>

\* src/geo_placer.py line 233: key (p.floor or 'ZZZ', p.identifier)
equity_key_less(a, b) ==
    \/ StrLess(floor_or_zzz(a), floor_or_zzz(b))
    \/ floor_or_zzz(a) = floor_or_zzz(b) /\ a.identifier < b.identifier

\* a plausible slip: the outliers are processed last
priority_band_outliers_last(p) ==
    IF ~Truthy(p.floor) THEN 2
    ELSE IF get_geographic_teams(p.floor) = {<<>>} THEN 2
    ELSE IF p.floor \in {<<"3", "W">>, IMCU} THEN 0
    ELSE 1

\* src/code/geo_placer.py get_patient_priority: the band of a patient
priority_band(p) ==
    IF ~Truthy(p.floor) THEN 1
    ELSE IF get_geographic_teams(p.floor) = {<<>>} THEN 1
    ELSE IF p.floor \in {<<"3", "W">>, IMCU} THEN 0
    ELSE 2

\* the tuples (band, floor, identifier) compared
get_patient_priority_less(a, b) ==
    \/ priority_band(a) < priority_band(b)
    \/ /\ priority_band(a) = priority_band(b)
       /\ \/ StrLess(floor_or_zzz(a), floor_or_zzz(b))
          \/ floor_or_zzz(a) = floor_or_zzz(b) /\ a.identifier < b.identifier

key_less(v, a, b) ==
    IF v = "equity" THEN equity_key_less(a, b) ELSE get_patient_priority_less(a, b)

\* sorted() is stable: p goes after every element whose key is not greater
RECURSIVE insert_sorted(_, _, _)
insert_sorted(v, seq, p) ==
    IF seq = <<>> THEN <<p>>
    ELSE IF key_less(v, p, seq[Len(seq)])
         THEN Append(insert_sorted(v, SubSeq(seq, 1, Len(seq) - 1), p), seq[Len(seq)])
         ELSE Append(seq, p)

\* sorted(patients, key=...)
RECURSIVE sorted(_, _)
sorted(v, seq) ==
    IF seq = <<>> THEN <<>>
    ELSE insert_sorted(v, sorted(v, SubSeq(seq, 1, Len(seq) - 1)), seq[Len(seq)])

----------------------------------------------------------------------------
(* optimize_placements, equity variant (src/geo_placer.py): one iteration.  *)
(* A rationale string is the sequence of its literal and formatted parts.  *)

\* the result of one iteration: a team with its flag and rationale, or none
NotPlaced == [placed |-> FALSE]
Placed(t, is_geo, reason) ==
    [placed |-> TRUE, team |-> t, is_geographic |-> is_geo, reason |-> reason]

IsImcuTeam(t) == t \in ToSet(IMCU_TEAMS)

\* lines 253-257
others_under_cap(t, geo_teams, c) ==
    \E k \in 1..Len(geo_teams) :
        LET other == geo_teams[k]
        IN  /\ other # t
            /\ Get(c, other) < SOFT_CAP
            /\ (~IsImcuTeam(other) \/ Get(c, other) < IMCU_CAP)

\* a plausible slip: a sibling with fewer new patients counts even when it
\* is over its cap
others_have_less_any(t, geo_teams, c, n) ==
    \E k \in 1..Len(geo_teams) :
        geo_teams[k] # t /\ n[geo_teams[k]] < n[t]

\* lines 262-267
others_have_less(t, geo_teams, c, n) ==
    \E k \in 1..Len(geo_teams) :
        LET other == geo_teams[k]
        IN  /\ other # t
            /\ n[other] < n[t]
            /\ (~IsImcuTeam(other) \/ Get(c, other) < IMCU_CAP)
            /\ Get(c, other) < SOFT_CAP

\* a plausible slip: the IMCU hard cap is not looked at
is_valid_geo_no_hard_cap(t, geo_teams, c, n) ==
    IF ~IsImcuTeam(t) /\ Get(c, t) >= SOFT_CAP /\ others_under_cap(t, geo_teams, c)
    THEN FALSE
    ELSE IF n[t] >= MAX_NEW_BEFORE_SPREAD /\ others_have_less(t, geo_teams, c, n)
    THEN FALSE
    ELSE TRUE

\* lines 246-270: whether the loop appends t to valid_geo_teams
is_valid_geo(t, geo_teams, c, n) ==
    IF IsImcuTeam(t) /\ Get(c, t) >= IMCU_CAP THEN FALSE
    ELSE IF ~IsImcuTeam(t) /\ Get(c, t) >= SOFT_CAP /\ others_under_cap(t, geo_teams, c)
    THEN FALSE
    ELSE IF n[t] >= MAX_NEW_BEFORE_SPREAD /\ others_have_less(t, geo_teams, c, n)
    THEN FALSE
    ELSE TRUE

valid_geo_teams(geo_teams, c, n) ==
    SelectSeq(geo_teams, LAMBDA t : is_valid_geo(t, geo_teams, c, n))

\* a plausible slip: the overflow teams are compared against as well
non_imcu_regular_with_overflow(closed) ==
    SelectSeq(open_teams(closed), LAMBDA t : ~IsImcuTeam(t))

\* non_imcu_regular = [t for t in regular_open_teams if t not in IMCU_TEAMS]
non_imcu_regular(closed) ==
    SelectSeq(regular_open_teams(closed), LAMBDA t : ~IsImcuTeam(t))

\* non_imcu_overflow = [t for t in OVERFLOW_TEAMS if t in open_teams and t not in IMCU_TEAMS]
non_imcu_overflow(closed) ==
    LET open == ToSet(open_teams(closed))
    IN  SelectSeq(OVERFLOW_TEAMS, LAMBDA t : t \in open /\ ~IsImcuTeam(t))

\* a plausible slip: the gap test compares with > instead of >=
balance_override_strict(best_geo_census, lowest_census, lowest_census_team, valid) ==
    /\ best_geo_census > lowest_census + MAX_CENSUS_GAP
    /\ ~In(lowest_census_team, valid)

\* line 285
balance_override(best_geo_census, lowest_census, lowest_census_team, valid) ==
    /\ best_geo_census >= lowest_census + MAX_CENSUS_GAP
    /\ ~In(lowest_census_team, valid)

\* lines 243-325: the geographic part; NotPlaced when best_team stays None
geographic_choice(p, geo_teams, c, n, closed) ==
    LET valid == valid_geo_teams(geo_teams, c, n)
    IN
    IF geo_teams = <<>> THEN NotPlaced
    ELSE IF valid # <<>>
    THEN LET best_geo_team == MinBy(valid, c)
             best_geo_census == Get(c, best_geo_team)
             regular == non_imcu_regular(closed)
         IN  IF regular # <<>>
             THEN LET lowest_census_team == MinBy(regular, c)
                      lowest_census == Get(c, lowest_census_team)
                  IN  IF balance_override(best_geo_census, lowest_census,
                                          lowest_census_team, valid)
                      THEN Placed(lowest_census_team, FALSE,
                                  <<"Balance override (", p.floor, "->Med ",
                                    best_geo_team, " would be ",
                                    best_geo_census + 1, ", Med ",
                                    lowest_census_team, " only ",
                                    lowest_census, ")">>)
                      ELSE Placed(best_geo_team, TRUE,
                                  <<"Geographic (", p.floor, " -> Med ", best_geo_team, ")">>)
             ELSE Placed(best_geo_team, TRUE,
                         <<"Geographic (", p.floor, " -> Med ", best_geo_team, ")">>)
    ELSE LET available_geo ==
                 SelectSeq(geo_teams,
                           LAMBDA t : ~IsImcuTeam(t) \/ Get(c, t) < IMCU_CAP)
         IN  IF available_geo = <<>> THEN NotPlaced
             ELSE LET best_geo == MinBy(available_geo, c)
                      best_geo_census == Get(c, best_geo)
                      non_imcu_non_geo ==
                          SelectSeq(regular_open_teams(closed),
                                    LAMBDA t : ~IsImcuTeam(t) /\ ~In(t, geo_teams))
                  IN  IF non_imcu_non_geo # <<>>
                      THEN LET best_non_geo ==
                                   MinBy(non_imcu_non_geo, c)
                               best_non_geo_census == Get(c, best_non_geo)
                           IN  IF best_geo_census >= best_non_geo_census + 3
                               THEN Placed(best_non_geo, FALSE,
                                           <<"Balance override (", p.floor,
                                             " geo full, Med ", best_non_geo,
                                             " lower census)">>)
                               ELSE Placed(best_geo, TRUE,
                                           <<"Geographic (over soft cap, ", p.floor,
                                             " -> Med ", best_geo, ")">>)
                      ELSE Placed(best_geo, TRUE,
                                  <<"Geographic (equity override, ", p.floor,
                                    " -> Med ", best_geo, ")">>)

\* a plausible slip: the fallback looks at every regular team, IMCU included
fallback_team_with_imcu(c, closed) ==
    LET regular == regular_open_teams(closed)
        under == SelectSeq(regular, LAMBDA t : Get(c, t) < SOFT_CAP)
    IN  IF under # <<>>
        THEN [placed |-> TRUE, team |-> MinBy(under, c)]
        ELSE IF open_teams(closed) # <<>>
        THEN [placed |-> TRUE, team |-> MinBy(open_teams(closed), c)]
        ELSE NotPlaced

\* a plausible slip: the last resort (any open team) is left out
fallback_team_no_last_resort(c, closed) ==
    LET regular == non_imcu_regular(closed)
        overflow == non_imcu_overflow(closed)
        regular_under_cap == SelectSeq(regular, LAMBDA t : Get(c, t) < SOFT_CAP)
        overflow_under_cap == SelectSeq(overflow, LAMBDA t : Get(c, t) < SOFT_CAP)
        pick(seq) == [placed |-> TRUE, team |-> MinBy(seq, c)]
    IN  IF regular_under_cap # <<>> THEN pick(regular_under_cap)
        ELSE IF overflow # <<>>
        THEN IF overflow_under_cap # <<>> THEN pick(overflow_under_cap)
             ELSE IF regular # <<>> THEN pick(regular)
             ELSE pick(overflow)
        ELSE IF regular # <<>> THEN pick(regular)
        ELSE NotPlaced

\* a plausible slip: the regular teams over the soft cap come before the
\* overflow teams
fallback_team_regular_first(c, closed) ==
    LET regular == non_imcu_regular(closed)
        overflow == non_imcu_overflow(closed)
        pick(seq) == [placed |-> TRUE, team |-> MinBy(seq, c)]
    IN  IF regular # <<>> THEN pick(regular)
        ELSE IF overflow # <<>> THEN pick(overflow)
        ELSE IF open_teams(closed) # <<>> THEN pick(open_teams(closed))
        ELSE NotPlaced

\* a plausible slip: the overflow teams count as regular teams
fallback_team_overflow_equal(c, closed) ==
    LET both == SelectSeq(open_teams(closed), LAMBDA t : ~IsImcuTeam(t))
        under_cap == SelectSeq(both, LAMBDA t : Get(c, t) < SOFT_CAP)
        pick(seq) == [placed |-> TRUE, team |-> MinBy(seq, c)]
    IN  IF under_cap # <<>> THEN pick(under_cap)
        ELSE IF both # <<>> THEN pick(both)
        ELSE IF open_teams(closed) # <<>> THEN pick(open_teams(closed))
        ELSE NotPlaced

\* lines 327-356: the fallback chain; NotPlaced on the WARNING path
fallback_team(c, closed) ==
    LET regular == non_imcu_regular(closed)
        overflow == non_imcu_overflow(closed)
        regular_under_cap == SelectSeq(regular, LAMBDA t : Get(c, t) < SOFT_CAP)
        overflow_under_cap == SelectSeq(overflow, LAMBDA t : Get(c, t) < SOFT_CAP)
        pick(seq) == [placed |-> TRUE, team |-> MinBy(seq, c)]
    IN  IF regular_under_cap # <<>> THEN pick(regular_under_cap)
        ELSE IF overflow # <<>>
        THEN IF overflow_under_cap # <<>> THEN pick(overflow_under_cap)
             ELSE IF regular # <<>> THEN pick(regular)
             ELSE pick(overflow)
        ELSE IF regular # <<>> THEN pick(regular)
        ELSE IF open_teams(closed) # <<>> THEN pick(open_teams(closed))
        ELSE NotPlaced

\* lines 358-364
fallback_reason(p) ==
    IF p.floor = BOYER THEN <<"Boyer overflow (Med 12 full), lowest census">>
    ELSE IF Truthy(p.floor) THEN <<"No geographic capacity for ", p.floor, ", lowest census">>
    ELSE <<"No floor specified, lowest census">>

\* lines 236-364: what one iteration decides for patient p, geo_teams_raw being
\* the list get_geographic_teams returned
equity_choice(p, geo_teams_raw, c, n, closed) ==
    LET geo_teams ==
            open_geo_teams(IF Truthy(p.floor) THEN geo_teams_raw ELSE <<>>, closed)
        g == geographic_choice(p, geo_teams, c, n, closed)
    IN  IF g.placed THEN g
        ELSE LET f == fallback_team(c, closed)
             IN  IF f.placed THEN Placed(f.team, FALSE, fallback_reason(p))
                 ELSE NotPlaced

----------------------------------------------------------------------------
(* optimize_placements, scored variant (src/code/geo_placer.py): one iteration *)

\* line 278
is_imcu_patient(p) == p.floor \in {<<"3", "W">>, IMCU}

\* lines 281-302: (score, census, is_not_geo)
team_score(t, p, geo_set, c, n, closed) ==
    LET cc == Get(c, t)
        r == n[t]
        is_geo == t \in geo_set
        non_geo_penalty == IF is_imcu_patient(p) THEN IMCU_PENALTY ELSE GEO_PENALTY
        base == cc * CENSUS_WEIGHT + r * REDIS_WEIGHT
                    + (IF is_geo THEN 0 ELSE non_geo_penalty)
        regular == regular_open_teams(closed)
        piling == IF r >= 2 /\ \E k \in 1..Len(regular) : n[regular[k]] = 0
                  THEN 2 ELSE 0
    IN  <<base + piling, cc, IF is_geo THEN 0 ELSE 1>>

\* a plausible slip: the 10th slot is not kept back
is_eligible_no_reserve(t, p, c) ==
    IF IsImcuTeam(t) THEN ~(Get(c, t) >= IMCU_CAP) ELSE TRUE

\* a plausible slip: the hard cap test is > instead of >=
is_eligible_cap_off_by_one(t, p, c) ==
    IF IsImcuTeam(t)
    THEN /\ ~(Get(c, t) > IMCU_CAP)
         /\ ~(Get(c, t) = IMCU_CAP - 1 /\ ~is_imcu_patient(p))
    ELSE TRUE

\* lines 304-314
is_eligible(t, p, c) ==
    IF IsImcuTeam(t)
    THEN /\ ~(Get(c, t) >= IMCU_CAP)
         /\ ~(Get(c, t) = IMCU_CAP - 1 /\ ~is_imcu_patient(p))
    ELSE TRUE

\* a plausible slip: the last tier (any open team) is left out
candidates_no_last_resort(p, c, closed) ==
    LET regular == regular_open_teams(closed)
        open == ToSet(open_teams(closed))
        overflow_open == SelectSeq(OVERFLOW_TEAMS, LAMBDA t : t \in open)
        tier1 == SelectSeq(regular, LAMBDA t : is_eligible(t, p, c) /\ Get(c, t) < SOFT_CAP)
        tier2 == SelectSeq(overflow_open,
                           LAMBDA t : is_eligible(t, p, c) /\ Get(c, t) < SOFT_CAP)
        tier3 == SelectSeq(regular, LAMBDA t : is_eligible(t, p, c))
    IN  IF tier1 # <<>> THEN tier1
        ELSE IF tier2 # <<>> THEN tier2
        ELSE tier3

\* lines 316-331: the candidate tiers
candidates(p, c, closed) ==
    LET regular == regular_open_teams(closed)
        open == ToSet(open_teams(closed))
        overflow_open == SelectSeq(OVERFLOW_TEAMS, LAMBDA t : t \in open)
        tier1 == SelectSeq(regular, LAMBDA t : is_eligible(t, p, c) /\ Get(c, t) < SOFT_CAP)
        tier2 == SelectSeq(overflow_open,
                           LAMBDA t : is_eligible(t, p, c) /\ Get(c, t) < SOFT_CAP)
        tier3 == SelectSeq(regular, LAMBDA t : is_eligible(t, p, c))
        tier4 == SelectSeq(open_teams(closed), LAMBDA t : is_eligible(t, p, c))
    IN  IF tier1 # <<>> THEN tier1
        ELSE IF tier2 # <<>> THEN tier2
        ELSE IF tier3 # <<>> THEN tier3
        ELSE tier4

\* lines 274-349: what one iteration decides for patient p
scored_choice(p, geo_teams_raw, c, n, closed) ==
    LET geo_set == ToSet(IF Truthy(p.floor) THEN geo_teams_raw ELSE <<>>) \ closed
        cands == candidates(p, c, closed)
    IN  IF cands = <<>> THEN NotPlaced
        ELSE LET best_team ==
                     MinByTriple(cands, [k \in 1..Len(cands) |->
                                          team_score(cands[k], p, geo_set, c, n, closed)])
                 is_geo == best_team \in geo_set
                 score_val == team_score(best_team, p, geo_set, c, n, closed)[1]
             IN  IF is_geo
                 THEN Placed(best_team, TRUE,
                             <<"Geographic (", p.floor, " -> Med ", best_team,
                               ", score=", score_val, ")">>)
                 ELSE IF Truthy(p.floor)
                 THEN Placed(best_team, FALSE,
                             <<"Balance (", p.floor, " -> Med ", best_team,
                               ", score=", score_val, ")">>)
                 ELSE Placed(best_team, FALSE,
                             <<"No floor specified (Med ", best_team,
                               ", score=", score_val, ")">>)

----------------------------------------------------------------------------
(* One iteration of the for loop, either variant *)

choice(v, p, geo_teams_raw, c, n, closed) ==
    IF v = "equity" THEN equity_choice(p, geo_teams_raw, c, n, closed)
    ELSE scored_choice(p, geo_teams_raw, c, n, closed)

\* the loop body on the locals st = (census, new_assignments, assignments) and
\* the printed warnings: `continue` on the WARNING path, else the commit of
\* lines 366-375 (equity) / 351-360 (scored)
iterate(v, p, geo_teams_raw, st, closed) ==
    LET r == choice(v, p, geo_teams_raw, st.census, st.new_assignments, closed)
    IN  IF r.placed
        THEN [census |-> Put(st.census, r.team, Get(st.census, r.team) + 1),
              new_assignments |-> [st.new_assignments EXCEPT ![r.team] = @ + 1],
              assignments |->
                  Append(st.assignments,
                         [patient |-> p, team |-> r.team,
                          is_geographic |-> r.is_geographic, reason |-> r.reason]),
              warnings |-> st.warnings]
        ELSE [st EXCEPT !.warnings = Append(@, p)]

----------------------------------------------------------------------------
(* Arguments of a call *)

\* the longest patient list tried
MaxPatients == 2

Variants == {"equity", "scored"}

\* what is typed for a patient (the caller stores normalize_floor of it), in
\* the order in which the lists below hold them
PatientLocations ==
    << <<"E", "D">>,              \* None
       IMCU,                      \* IMCU
       <<"8", "7", "7">>,         \* BOYER
       <<"5", "4", "5", "B">>,    \* 5E
       <<"5", "2", "5">>,         \* 5? (room 25 is neither West nor East)
       <<"3", "4", "0">> >>       \* 3E

\* src/geo_placer.py lines 460-465: Patient(f"Pt{count}", normalize_floor(location), location).
\* An identifier k stands for the string "Pt<k>", k < 10, so that the order of
\* the numbers is the order of the strings.
Patient(k, loc) ==
    [identifier |-> k, floor |-> normalize_floor(loc), raw_location |-> loc]

\* Patient lists of at most max patients with distinct identifiers.  Which
\* patient carries which identifier does not change a placement, so one
\* order per choice of locations is kept: locations in the order of locs
\* (the reverse of the floor order of src/geo_placer.py) and identifiers
\* descending, so that sorted() has to move the patients.
PatientLists(locs, max) ==
    UNION {{[k \in 1..len |-> Patient(len + 1 - k, locs[ix[k]])] :
              ix \in {f \in [1..len -> 1..Len(locs)] :
                        \A a, b \in 1..len : a < b => f[a] <= f[b]}} :
           len \in 0..max}

\* census dicts: the IMCU teams, team 5, team 10, the other regular teams and
\* the overflow teams each at a level around the caps
CensusOf(imcu, t5, t10, rest, over) ==
    [t \in Teams |->
        IF IsImcuTeam(t) THEN imcu[t]
        ELSE IF t = 5 THEN t5
        ELSE IF t = 10 THEN t10
        ELSE IF In(t, OVERFLOW_TEAMS) THEN over
        ELSE rest]

CensusInputs ==
    {CensusOf(imcu, geo5[1], geo5[2], ro[1], ro[2]) :
        imcu \in {<<IMCU_CAP - 1, 0, 0>>, <<IMCU_CAP - 1, IMCU_CAP, IMCU_CAP>>,
                  <<IMCU_CAP, IMCU_CAP, IMCU_CAP>>},
        geo5 \in {<<0, 0>>, <<0, MAX_CENSUS_GAP>>, <<SOFT_CAP, MAX_CENSUS_GAP>>,
                  <<SOFT_CAP, SOFT_CAP>>},
        ro \in {<<0, 0>>, <<SOFT_CAP - 1, 0>>, <<SOFT_CAP, 0>>, <<SOFT_CAP, SOFT_CAP>>}}
    \cup {[t \in {1, 2, 3} |-> IMCU_CAP]}    \* a dict that lacks the other teams

ClosedInputs ==
    { {}, {5}, {12}, {1, 2, 3}, 4..13, 4..15, 1..15 }

----------------------------------------------------------------------------
(* State machine of one optimize_placements call *)

InitCall(variants, lists, censuses, closeds) ==
    /\ variant \in variants
    /\ patients \in lists
    /\ current_census \in censuses
    /\ closed_teams \in closeds
    /\ pc = "start"
    /\ patients_sorted = <<>> /\ idx = 0
    /\ census = <<>> /\ new_assignments = <<>> /\ assignments = <<>>
    /\ warnings = <<>>
    /\ FloorIdle
    /\ ShuffleIdle

\* lines 223-233: the locals before the loop
StartLocals ==
    /\ pc = "start"
    /\ assignments' = <<>>
    /\ census' = current_census
    /\ new_assignments' = [t \in Teams |-> 0]
    /\ patients_sorted' = sorted(variant, patients)
    /\ idx' = 1
    /\ warnings' = <<>>
    /\ pc' = "loop"
    /\ UNCHANGED <<variant, patients, current_census, closed_teams>>
    /\ UNCHANGED floorVars
    /\ UNCHANGED shuffleVars

\* a plausible slip: census = current_census without .copy(), one dict under
\* two names
caller_census_aliased(cur, running) == running

\* line 224: census is a copy, so the caller's dict keeps its value cur
\* whatever the running census becomes
caller_census(cur, running) == cur

\* the locals of the running call as one record
Locals ==
    [census |-> census, new_assignments |-> new_assignments,
     assignments |-> assignments, warnings |-> warnings]

\* one iteration of the for loop on the next patient; g is the list that
\* get_geographic_teams returns for it
LoopBody(g) ==
    LET st == iterate(variant, patients_sorted[idx], g, Locals, closed_teams)
    IN  /\ census' = st.census
        /\ new_assignments' = st.new_assignments
        /\ assignments' = st.assignments
        /\ warnings' = st.warnings
        /\ idx' = idx + 1
        /\ current_census' = caller_census(current_census, st.census)
        /\ UNCHANGED <<variant, patients, closed_teams, pc, patients_sorted>>
        /\ UNCHANGED floorVars
        /\ UNCHANGED shuffleVars

InLoop == pc = "loop" /\ idx <= Len(patients_sorted)

\* return assignments
ReturnLocals ==
    /\ pc = "loop" /\ idx > Len(patients_sorted)
    /\ pc' = "done"
    /\ UNCHANGED <<variant, patients, current_census, closed_teams,
                   patients_sorted, idx, census, new_assignments, assignments,
                   warnings>>
    /\ UNCHANGED floorVars
    /\ UNCHANGED shuffleVars

Init ==
    /\ InitCall(Variants, PatientLists(PatientLocations, MaxPatients),
                CensusInputs, ClosedInputs)
    /\ twin = <<>>

Start == StartLocals /\ UNCHANGED twin

Place ==
    /\ InLoop
    /\ \E g \in get_geographic_teams(patients_sorted[idx].floor) : LoopBody(g)
    /\ UNCHANGED twin

Return == ReturnLocals /\ UNCHANGED twin

Next == Start \/ Place \/ Return

Spec == Init /\ [][Next]_vars

----------------------------------------------------------------------------
(* Two calls on the same arguments, side by side: the call above and its    *)
(* twin, each with its own order of the list that comes out of a set.       *)

\* the locations of the twin calls: an ambiguous room, an East room, the ED
TwinLocations == SubSeq(PatientLocations, 4, 5) \o SubSeq(PatientLocations, 1, 1)

InitTwin ==
    /\ InitCall(Variants, PatientLists(TwinLocations, MaxPatients),
                CensusInputs, {{}, {5}})
    /\ twin = <<>>

StartTwin ==
    /\ StartLocals
    /\ twin' = [census |-> current_census,
                new_assignments |-> [t \in Teams |-> 0],
                assignments |-> <<>>, warnings |-> <<>>]

PlaceTwin ==
    /\ InLoop
    /\ \E g \in get_geographic_teams(patients_sorted[idx].floor) : LoopBody(g)
    /\ \E h \in get_geographic_teams(patients_sorted[idx].floor) :
          twin' = iterate(variant, patients_sorted[idx], h, twin, closed_teams)

ReturnTwin == ReturnLocals /\ UNCHANGED twin

NextTwin == StartTwin \/ PlaceTwin \/ ReturnTwin

SpecTwin == InitTwin /\ [][NextTwin]_vars

----------------------------------------------------------------------------
(* Calls on census dicts that lack teams or hold negative counts; the twin  *)
(* is the call on the same dict with every missing team entered as 0.       *)

\* the dict c without the teams outside D
Restrict(c, D) == [t \in (DOMAIN c) \cap D |-> c[t]]

\* the dict c with every missing team entered as 0
WithZeros(c) == [t \in Teams |-> IF t \in DOMAIN c THEN c[t] ELSE 0]

\* census dicts that lack some teams
PartialCensusInputs ==
    {Restrict(CensusOf(imcu, 0, t10, rest, 0), D) :
        imcu \in {<<0, 0, 0>>, <<IMCU_CAP, IMCU_CAP - 1, 0>>},
        t10 \in {0, MAX_CENSUS_GAP},
        rest \in {1, SOFT_CAP},
        D \in {{}, {1, 2, 3}, Teams \ {5}, Teams \ {1, 10, 14}, 6..13}}

\* census dicts with a negative count
NegativeCensusInputs ==
    {CensusOf(<<0, 0, 0 - 1>>, 0, 0, 0, 0), CensusOf(<<0, 0, 0>>, 0 - 2, 0, 0, 0),
     CensusOf(<<0, 0, 0>>, 0, 0, 0 - 1, 0 - 1)}

InitCensus ==
    /\ InitCall(Variants, PatientLists(PatientLocations, MaxPatients),
                PartialCensusInputs \cup NegativeCensusInputs, {{}, {5}, 4..13})
    /\ twin = <<>>

StartCensus ==
    /\ StartLocals
    /\ twin' = [census |-> WithZeros(current_census),
                new_assignments |-> [t \in Teams |-> 0],
                assignments |-> <<>>, warnings |-> <<>>]

PlaceCensus ==
    /\ InLoop
    /\ \E g \in get_geographic_teams(patients_sorted[idx].floor) :
          /\ LoopBody(g)
          /\ twin' = iterate(variant, patients_sorted[idx], g, twin, closed_teams)

ReturnCensus == ReturnLocals /\ UNCHANGED twin

NextCensus == StartCensus \/ PlaceCensus \/ ReturnCensus

SpecCensus == InitCensus /\ [][NextCensus]_vars

----------------------------------------------------------------------------
(* Calls of the scored variant on patient lists in every order              *)

\* bound: the longest patient list of these calls
MaxOrder == 2

\* IMCU, 3W, ED, a floor no team covers (2W), 3E and an ambiguous room
OrderLocations ==
    { IMCU, <<"3", "1", "2">>, <<"E", "D">>, <<"2", "1", "2">>,
      <<"3", "4", "0">>, <<"5", "2", "5">> }

\* the orderings of 1..n
Orderings(n) ==
    {f \in [1..n -> 1..n] : \A a, b \in 1..n : a # b => f[a] # f[b]}

\* patient lists of at most max patients, any location and any identifier at
\* any position
OrderLists(max) ==
    UNION {{[k \in 1..len |-> Patient(ids[k], locs[k])] :
              locs \in [1..len -> OrderLocations], ids \in Orderings(len)} :
           len \in 0..max}

InitOrder ==
    /\ InitCall({"scored"}, OrderLists(MaxOrder),
                {CensusOf(<<IMCU_CAP - 1, IMCU_CAP, 0>>, 0, 0, 0, 0)}, {{}, 4..15})
    /\ twin = <<>>

NextOrder == Start \/ Place \/ Return

SpecOrder == InitOrder /\ [][NextOrder]_vars

----------------------------------------------------------------------------
(* Calls of the equity variant on lists long enough for one team to take    *)
(* MAX_NEW_BEFORE_SPREAD new patients                                       *)

\* bound: the longest patient list of these calls
MaxSpread == 4

\* a 5E room (teams 5 and 10) and the IMCU (teams 1, 2, 3)
SpreadLocations == << <<"5", "4", "5", "B">>, IMCU >>

\* census dicts in which one geographic team is far below its sibling
SpreadCensusInputs ==
    {CensusOf(imcu, geo5[1], geo5[2], rest, 0) :
        imcu \in {<<0, IMCU_CAP - 1, IMCU_CAP>>, <<IMCU_CAP, IMCU_CAP, IMCU_CAP>>},
        geo5 \in {<<0, 0>>, <<0, MAX_NEW_BEFORE_SPREAD + MAX_CENSUS_GAP>>,
                  <<0, SOFT_CAP>>, <<SOFT_CAP - 2, SOFT_CAP>>},
        rest \in {0, SOFT_CAP - 1}}

SpreadClosedInputs == { {}, {10}, 4..13 }

InitSpread ==
    /\ InitCall({"equity"}, PatientLists(SpreadLocations, MaxSpread),
                SpreadCensusInputs, SpreadClosedInputs)
    /\ twin = <<>>

NextSpread == Start \/ Place \/ Return

SpecSpread == InitSpread /\ [][NextSpread]_vars

----------------------------------------------------------------------------
(* Calls of the scored variant on patients that need Med 1-3                *)

\* bound: the longest patient list of these calls
MaxNeed == 2

\* the IMCU and a 3W room
NeedLocations == << IMCU, <<"3", "1", "2">> >>

\* census dicts with one IMCU team a few patients under the hard cap
NeedCensusInputs ==
    {CensusOf(<<first, IMCU_CAP, IMCU_CAP>>, rest, rest, rest, 0) :
        first \in (IMCU_CAP - 3)..IMCU_CAP, rest \in {0, MAX_CENSUS_GAP, SOFT_CAP}}

NeedClosedInputs == { {}, {2, 3}, {4}, 4..13 }

InitNeed ==
    /\ InitCall({"scored"}, PatientLists(NeedLocations, MaxNeed),
                NeedCensusInputs, NeedClosedInputs)
    /\ twin = <<>>

NextNeed == Start \/ Place \/ Return

SpecNeed == InitNeed /\ [][NextNeed]_vars

----------------------------------------------------------------------------
(* analyze_patients (src/pages/2_Monday_Shuffle.py; the copy in             *)
(* src/geo_placer_web.py has the same body)                                 *)

\* bound: the longest list of existing patients
MaxExisting == 2

\* rooms read off the census screen: East, ambiguous, Boyer, ED, IMCU and a
\* floor that no team covers (2W)
ExistingRooms ==
    { <<"5", "4", "5", "B">>, <<"5", "2", "5">>, <<"8", "7", "7">>,
      <<"E", "D">>, IMCU, <<"2", "1", "2">> }

\* the teams a patient is found on
ExistingTeams == {1, 5, 10, 12, 14}

\* lines 312-314: ExistingPatient(room=room, current_team=team, floor=normalize_floor(room))
ExistingPatient(room, team) ==
    [room |-> room, current_team |-> team, floor |-> normalize_floor(room)]

\* lists of existing patients; a room is on the list once (lines 310-311)
ExistingLists(max) ==
    UNION {{[k \in 1..len |-> ExistingPatient(rooms[k], teams[k])] :
              rooms \in {r \in [1..len -> ExistingRooms] :
                           \A a, b \in 1..len : a # b => r[a] # r[b]},
              teams \in [1..len -> ExistingTeams]} :
           len \in 0..max}

ShuffleClosedInputs == { {}, {5}, {10, 12}, {1, 2, 3}, 1..15 }

\* a plausible slip: the closed teams stay acceptable
acceptable_teams_unfiltered(geo_teams, closed) == geo_teams

\* line 119: acceptable_teams = [t for t in geo_teams if t not in closed_teams]
acceptable_teams(geo_teams, closed) ==
    SelectSeq(geo_teams, LAMBDA t : t \notin closed)

\* a plausible slip: only the first acceptable team counts
on_acceptable_team_first_only(patient, acceptable) ==
    acceptable # <<>> /\ acceptable[1] = patient.current_team

\* line 121: patient.current_team in acceptable_teams
on_acceptable_team(patient, acceptable) == In(patient.current_team, acceptable)

InitShuffle ==
    /\ variant = "none"
    /\ patients \in ExistingLists(MaxExisting)
    /\ closed_teams \in ShuffleClosedInputs
    /\ current_census = <<>>
    /\ pc = "analyze" /\ idx = 1
    /\ patients_sorted = <<>> /\ census = <<>> /\ new_assignments = <<>>
    /\ assignments = <<>> /\ warnings = <<>> /\ twin = <<>>
    /\ FloorIdle
    /\ ShuffleIdle

\* lines 117-126: one iteration of the loop
Classify ==
    /\ pc = "analyze" /\ idx <= Len(patients)
    /\ LET patient == patients[idx]
       IN  \E g \in get_geographic_teams(patient.floor) :
              LET geo_teams == IF Truthy(patient.floor) THEN g ELSE <<>>
                  acceptable == acceptable_teams(geo_teams, closed_teams)
              IN  IF on_acceptable_team(patient, acceptable)
                  THEN /\ ok_team' = Append(ok_team, patient)
                       /\ UNCHANGED wrong_team
                  ELSE IF acceptable # <<>>
                  THEN /\ wrong_team' = Append(wrong_team, <<patient, acceptable>>)
                       /\ UNCHANGED ok_team
                  ELSE /\ wrong_team' = Append(wrong_team, <<patient, <<>> >>)
                       /\ UNCHANGED ok_team
    /\ idx' = idx + 1
    /\ UNCHANGED <<variant, patients, current_census, closed_teams, pc,
                   patients_sorted, census, new_assignments, assignments,
                   warnings, twin>>
    /\ UNCHANGED floorVars
    /\ UNCHANGED sweepVars

\* line 128: return wrong_team, ok_team
ReturnAnalysis ==
    /\ pc = "analyze" /\ idx > Len(patients)
    /\ pc' = "analyzed"
    /\ UNCHANGED <<variant, patients, current_census, closed_teams,
                   patients_sorted, idx, census, new_assignments, assignments,
                   warnings, twin>>
    /\ UNCHANGED floorVars
    /\ UNCHANGED shuffleVars

NextShuffle == Classify \/ ReturnAnalysis

SpecShuffle == InitShuffle /\ [][NextShuffle]_vars

----------------------------------------------------------------------------
(* The Monday shuffle of src/geo_placer_web.py: its own floor parser and    *)
(* geography table                                                          *)

\* s.startswith(w)
StartsWith(s, w) == Len(s) >= Len(w) /\ SubSeq(s, 1, Len(w)) = w

\* src/geo_placer_web.py lines 185-238.  Lines 203-238 are lines 137-180 of
\* src/geo_placer.py, which normalize_floor reaches when none of its four
\* keyword tests matches.
normalize_floor_web(loc) ==
    LET original == Upper(Strip(loc))
    IN  IF Contains(original, IMCU) THEN IMCU
        ELSE IF \/ Contains(original, <<"O", "V", "E", "R", "N", "I", "G", "H", "T">>)
                \/ Contains(original, <<"O", "N", "R">>)
                \/ Contains(original, <<"R", "E", "C", "O", "V", "E", "R", "Y">>)
             THEN BOYER
        ELSE IF StartsWith(original, <<"R", "Z">>) THEN BOYER
        ELSE IF StartsWith(original, <<"Y">>) THEN BOYER
        ELSE IF \/ Contains(original, <<"E", "D">>)
                \/ Contains(original, <<"E", "M", "E", "R", "G", "E", "N", "C", "Y">>)
                \/ Contains(original, <<"E", "R", " ">>)
             THEN None
        ELSE IF Contains(original, BOYER) THEN BOYER
        ELSE IF original = <<"M", "A", "I", "N">> THEN None
        ELSE normalize_floor(loc)

\* src/geo_placer_web.py lines 121-130: team 13 covers no floor
FLOOR_TO_TEAMS_web ==
    (<<"3", "W">> :> <<1, 2, 3>>) @@ (<<"3", "E">> :> <<1, 2, 3>>) @@
    (<<"4", "W">> :> <<4, 11>>) @@ (<<"4", "E">> :> <<4, 11>>) @@
    (<<"5", "W">> :> <<5, 10>>) @@ (<<"5", "E">> :> <<5, 10>>) @@
    (<<"6", "W">> :> <<6, 12>>) @@ (<<"6", "E">> :> <<6, 12>>) @@
    (<<"7", "W">> :> <<7, 9>>) @@ (<<"7", "E">> :> <<7, 9>>) @@
    (<<"8", "E">> :> <<8>>) @@ (<<"8", "W">> :> <<8>>) @@
    (IMCU :> <<1, 2, 3>>) @@ (BOYER :> <<12, 6>>)

\* src/geo_placer_web.py line 149
OVERFLOW_TEAMS_web == <<13, 14, 15>>

table_get_web(key) ==
    IF key \in DOMAIN FLOOR_TO_TEAMS_web THEN FLOOR_TO_TEAMS_web[key] ELSE <<>>

\* src/geo_placer_web.py lines 241-251
get_geographic_teams_web(f) ==
    IF ~Truthy(f) THEN {<<>>}
    ELSE IF f \in DOMAIN FLOOR_TO_TEAMS_web THEN {FLOOR_TO_TEAMS_web[f]}
    ELSE IF f[Len(f)] = "?"
         THEN LET floor_num == SubSeq(f, 1, Len(f) - 1)
                  east_teams == table_get_web(floor_num \o <<"E">>)
                  west_teams == table_get_web(floor_num \o <<"W">>)
              IN  list_of_set(ToSet(east_teams \o west_teams))
    ELSE {<<>>}

----------------------------------------------------------------------------
(* The recommendation sweep after analyze_patients, in its two copies:      *)
(*   "web"   src/geo_placer_web.py lines 997-1054 (with overflow teams)     *)
(*   "page"  src/pages/2_Monday_Shuffle.py lines 395-435                    *)

\* bound: the most patients on the list besides a full ward
MaxSweep == 2

\* src/geo_placer_web.py lines 1021-1022, src/pages/2_Monday_Shuffle.py line 416
SHUFFLE_IMCU_TARGET == 9
OVERFLOW_THRESHOLD == 10
IMCU_TARGET == 9

\* Python None where a team number is expected (recommendations.append((patient,
\* None))); like None it is false in `if rec_team`
NoTeam == 0

SweepVariants == {"web", "page"}

\* the floor parser of the copy
ExistingPatientOf(v, room, team) ==
    [room |-> room, current_team |-> team,
     floor |-> IF v = "web" THEN normalize_floor_web(room) ELSE normalize_floor(room)]

\* rooms of the patients tried, in the order of the lists: 2W (no team),
\* 3W, 5E, 8E and Boyer
SweepRooms ==
    << <<"2", "1", "2">>, <<"3", "1", "2">>, <<"5", "4", "5", "B">>,
       <<"8", "4", "0">>, <<"8", "7", "7">> >>

\* the teams they are found on
SweepTeams == {1, 5, 7, 14}

\* a ward that fills one team: ten 5E patients, rooms 530-539, on team 5
FullWard(v) ==
    [k \in 1..OVERFLOW_THRESHOLD |->
        ExistingPatientOf(v, <<"5", "3", Alphabet[3 + k]>>, 5)]

\* non-empty lists: nothing or the full ward, then at most max patients in
\* distinct rooms, the rooms in the order of SweepRooms (the sweep sorts
\* by room)
SweepLists(v, max) ==
    UNION {{ward \o [k \in 1..len |-> ExistingPatientOf(v, SweepRooms[ix[k]], teams[k])] :
              ward \in {<<>>, FullWard(v)},
              ix \in {f \in [1..len -> 1..Len(SweepRooms)] :
                        \A a, b \in 1..len : a < b => f[a] < f[b]},
              teams \in [1..len -> SweepTeams]} :
           len \in 1..max}

SweepClosedInputs == { {}, {10}, {13, 15}, {2, 3, 10, 13, 14, 15} }

\* team_census: a defaultdict with an entry for every team that has a patient
count_census(ps) ==
    [t \in {ps[k].current_team : k \in 1..Len(ps)} |->
        Cardinality({k \in 1..Len(ps) : ps[k].current_team = t})]

\* sorted(wrong_team, key=lambda x: x[0].room): stable, by the room string
RECURSIVE insert_by_room(_, _)
insert_by_room(seq, e) ==
    IF seq = <<>> THEN <<e>>
    ELSE IF StrLess(e[1].room, seq[Len(seq)][1].room)
         THEN Append(insert_by_room(SubSeq(seq, 1, Len(seq) - 1), e), seq[Len(seq)])
         ELSE Append(seq, e)

RECURSIVE sorted_by_room(_)
sorted_by_room(seq) ==
    IF seq = <<>> THEN <<>>
    ELSE insert_by_room(sorted_by_room(SubSeq(seq, 1, Len(seq) - 1)), seq[Len(seq)])

\* team_score(t): the projected census, plus 100 for an IMCU team at target
shuffle_team_score(t, projected, target) ==
    IF IsImcuTeam(t) /\ Get(projected, t) >= target
    THEN Get(projected, t) + 100
    ELSE Get(projected, t)

\* min(options, key=team_score): the first option of least score
best_by_score(options, projected, target) ==
    LET keys == [k \in 1..Len(options) |->
                   shuffle_team_score(options[k], projected, target)]
    IN  options[first_min(keys, 2, 1)]

\* a plausible slip: the closed overflow teams are offered as well
available_overflow_all(closed) == OVERFLOW_TEAMS_web

\* line 1027: available_overflow = [t for t in OVERFLOW_TEAMS if t not in shuffle_closed_teams]
available_overflow(closed) ==
    SelectSeq(OVERFLOW_TEAMS_web, LAMBDA t : t \notin closed)

\* lines 1037-1041: the teams the patient can be sent to
sweep_options(acceptable, projected, closed) ==
    LET min_geo_census == Get(projected, MinBy(acceptable, projected))
    IN  IF min_geo_census >= OVERFLOW_THRESHOLD /\ available_overflow(closed) # <<>>
        THEN acceptable \o available_overflow(closed)
        ELSE acceptable

\* a plausible slip: the patient is not taken off the current team
move_patient_no_leave(projected, patient, best_team) ==
    Put(projected, best_team, Get(projected, best_team) + 1)

\* lines 1044-1045 (431-432): the patient joins best_team and leaves the
\* current team
move_patient(projected, patient, best_team) ==
    LET joined == Put(projected, best_team, Get(projected, best_team) + 1)
    IN  Put(joined, patient.current_team, Get(joined, patient.current_team) - 1)

InitSweep ==
    /\ variant \in SweepVariants
    /\ patients \in SweepLists(variant, MaxSweep)
    /\ closed_teams \in SweepClosedInputs
    /\ current_census = <<>>
    /\ pc = IF variant = "web" THEN "analyze_web" ELSE "analyze"
    /\ idx = 1
    /\ patients_sorted = <<>> /\ census = <<>> /\ new_assignments = <<>>
    /\ assignments = <<>> /\ warnings = <<>> /\ twin = <<>>
    /\ FloorIdle
    /\ ShuffleIdle

\* src/geo_placer_web.py lines 411-420: one iteration of analyze_patients
ClassifyWeb ==
    /\ pc = "analyze_web" /\ idx <= Len(patients)
    /\ LET patient == patients[idx]
       IN  \E g \in get_geographic_teams_web(patient.floor) :
              LET geo_teams == IF Truthy(patient.floor) THEN g ELSE <<>>
                  acceptable == acceptable_teams(geo_teams, closed_teams)
              IN  IF on_acceptable_team(patient, acceptable)
                  THEN /\ ok_team' = Append(ok_team, patient)
                       /\ UNCHANGED wrong_team
                  ELSE IF acceptable # <<>>
                  THEN /\ wrong_team' = Append(wrong_team, <<patient, acceptable>>)
                       /\ UNCHANGED ok_team
                  ELSE /\ wrong_team' = Append(wrong_team, <<patient, <<>> >>)
                       /\ UNCHANGED ok_team
    /\ idx' = idx + 1
    /\ UNCHANGED <<variant, patients, current_census, closed_teams, pc,
                   patients_sorted, census, new_assignments, assignments,
                   warnings, twin>>
    /\ UNCHANGED floorVars
    /\ UNCHANGED sweepVars

\* src/geo_placer_web.py line 422: return wrong_team, ok_team
ReturnAnalysisWeb ==
    /\ pc = "analyze_web" /\ idx > Len(patients)
    /\ pc' = "analyzed"
    /\ UNCHANGED <<variant, patients, current_census, closed_teams,
                   patients_sorted, idx, census, new_assignments, assignments,
                   warnings, twin>>
    /\ UNCHANGED floorVars
    /\ UNCHANGED shuffleVars

\* lines 1017-1025 (409-419): the census is counted and copied
CountCensus ==
    /\ pc = "analyzed" /\ variant \in SweepVariants
    /\ patients # <<>>
    /\ team_census' = count_census(patients)
    /\ projected_census' = count_census(patients)
    /\ recommendations' = <<>>
    /\ idx' = 1
    /\ pc' = "sweep"
    /\ UNCHANGED <<variant, patients, current_census, closed_teams,
                   patients_sorted, census, new_assignments, assignments,
                   warnings, twin, wrong_team, ok_team>>
    /\ UNCHANGED floorVars

InSweep == pc = "sweep" /\ idx <= Len(wrong_team)

\* the pair the for loop is at
sweep_item == sorted_by_room(wrong_team)[idx]

\* src/geo_placer_web.py lines 1029-1054: one iteration of the sweep
RecommendWeb ==
    /\ InSweep /\ variant = "web"
    /\ LET patient == sweep_item[1]
           acceptable == sweep_item[2]
       IN  IF acceptable # <<>>
           THEN LET options == sweep_options(acceptable, projected_census, closed_teams)
                    best_team == best_by_score(options, projected_census,
                                               SHUFFLE_IMCU_TARGET)
                IN  /\ projected_census' =
                           move_patient(projected_census, patient, best_team)
                    /\ recommendations' =
                           Append(recommendations, <<patient, best_team>>)
           ELSE IF available_overflow(closed_teams) # <<>>
           THEN LET best_team == MinBy(available_overflow(closed_teams),
                                       projected_census)
                IN  /\ projected_census' =
                           move_patient(projected_census, patient, best_team)
                    /\ recommendations' =
                           Append(recommendations, <<patient, best_team>>)
           ELSE /\ recommendations' = Append(recommendations, <<patient, NoTeam>>)
                /\ UNCHANGED projected_census
    /\ idx' = idx + 1
    /\ UNCHANGED <<variant, patients, current_census, closed_teams, pc,
                   patients_sorted, census, new_assignments, assignments,
                   warnings, twin, wrong_team, ok_team, team_census>>
    /\ UNCHANGED floorVars

\* src/pages/2_Monday_Shuffle.py lines 421-435: one iteration of the sweep
RecommendPage ==
    /\ InSweep /\ variant = "page"
    /\ LET patient == sweep_item[1]
           acceptable == sweep_item[2]
       IN  IF acceptable # <<>>
           THEN LET best_team == best_by_score(acceptable, projected_census,
                                               IMCU_TARGET)
                IN  /\ projected_census' =
                           move_patient(projected_census, patient, best_team)
                    /\ recommendations' =
                           Append(recommendations, <<patient, best_team>>)
           ELSE /\ recommendations' = Append(recommendations, <<patient, NoTeam>>)
                /\ UNCHANGED projected_census
    /\ idx' = idx + 1
    /\ UNCHANGED <<variant, patients, current_census, closed_teams, pc,
                   patients_sorted, census, new_assignments, assignments,
                   warnings, twin, wrong_team, ok_team, team_census>>
    /\ UNCHANGED floorVars

\* the for loop ends
FinishSweep ==
    /\ pc = "sweep" /\ idx > Len(wrong_team)
    /\ pc' = "swept"
    /\ UNCHANGED <<variant, patients, current_census, closed_teams,
                   patients_sorted, idx, census, new_assignments, assignments,
                   warnings, twin>>
    /\ UNCHANGED floorVars
    /\ UNCHANGED shuffleVars

NextSweep ==
    \/ Classify \/ ReturnAnalysis \/ ClassifyWeb \/ ReturnAnalysisWeb
    \/ CountCensus \/ RecommendWeb \/ RecommendPage \/ FinishSweep

SpecSweep == InitSweep /\ [][NextSweep]_vars

----------------------------------------------------------------------------
(* Properties of normalize_floor and get_geographic_teams (SpecFloor)       *)

\* C8: normalize_floor gives back every canonical floor label unchanged.
CanonicalLabelsRoundTrip ==
    (fpc = "parsed" /\ location \in CanonicalLabels) => floor = location

\* a three-digit room number, bare or with one trailing letter
IsRoomLocation(loc) ==
    /\ Len(loc) \in {3, 4}
    /\ \A k \in 1..3 : IsDigit(loc[k])
    /\ Len(loc) = 4 => (IsUpperLetter(loc[4]) \/ IsLowerLetter(loc[4]))

\* the label the room rules give floor digit f and room number r
RoomRule(f, r) ==
    IF (f \in {"7", "8"} /\ r >= 50) \/ f = "9" THEN <<"B", "O", "Y", "E", "R">>
    ELSE IF 1 <= r /\ r <= 20 THEN <<f, "W">>
    ELSE IF 30 <= r /\ r <= 49 THEN <<f, "E">>
    ELSE <<f, "?">>

GeographicTeamsOfLabel ==
    fpc \in {"parsed_done", "lookup_done"} =>
        /\ \A k \in 1..Len(geo) : geo[k] \in 1..15
        /\ IF floor \in {None, <<>>} THEN geo = <<>>
           ELSE IF floor \in DOMAIN FLOOR_TO_TEAMS THEN geo = FLOOR_TO_TEAMS[floor]
           ELSE IF floor[Len(floor)] = "?"
           THEN LET n == SubSeq(floor, 1, Len(floor) - 1)
                IN  /\ ToSet(geo) = ToSet(table_get(n \o <<"E">>))
                                        \cup ToSet(table_get(n \o <<"W">>))
                    /\ Len(geo) = Cardinality(ToSet(geo))
           ELSE geo = <<>>

\* the lookup of the ambiguous label 5? returned teams 10 and 5
AmbiguousLabelLookedUp ==
    /\ fpc = "lookup_done"
    /\ floor = <<"5", "?">>
    /\ geo = <<10, 5>>

----------------------------------------------------------------------------
(* Properties of optimize_placements (Spec, SpecTwin)                       *)

\* the patient the loop is at, and what the iteration appended
current_patient == patients_sorted[idx]
placed_now == Len(assignments') = Len(assignments) + 1
new_assignment == assignments'[Len(assignments')]

\* the starting census of team t plus the patients assigned to it
StartPlusAssigned(t) ==
    Get(current_census, t)
        + Cardinality({k \in 1..Len(assignments) : assignments[k].team = t})

\* C1: in the equity variant, when every IMCU team starts with at most 10
\* patients, no IMCU team ends with more than 10.
ImcuHardCapHeld ==
    (variant = "equity" /\ \A t \in ToSet(IMCU_TEAMS) : Get(current_census, t) <= IMCU_CAP)
        => \A t \in ToSet(IMCU_TEAMS) : StartPlusAssigned(t) <= IMCU_CAP

\* C2: no assignment, of either variant, names a closed team.
NoClosedTeamAssigned ==
    \A k \in 1..Len(assignments) : assignments[k].team \notin closed_teams

\* the scored call returned with every patient placed while teams 4-13 were closed
PlacedAroundClosedTeams ==
    /\ variant = "scored" /\ pc = "done"
    /\ closed_teams = 4..13
    /\ Len(patients) >= 1
    /\ Len(assignments) = Len(patients)

\* C3: in the equity variant every input patient is in exactly one
\* assignment or was skipped, never both and never twice, and a patient is
\* skipped only when all 15 teams are closed.
EveryPatientOnce ==
    (variant = "equity" /\ pc = "done") =>
        /\ \A k \in 1..Len(patients) :
              Cardinality({j \in 1..Len(assignments) : assignments[j].patient = patients[k]})
                + Cardinality({j \in 1..Len(warnings) : warnings[j] = patients[k]}) = 1
        /\ Len(assignments) + Len(warnings) = Len(patients)
        /\ (Teams \ closed_teams # {}) => warnings = <<>>
        /\ (Teams \ closed_teams = {}) => assignments = <<>>

\* the equity call placed two patients with only the IMCU teams open
AllPlacedWithFewTeamsOpen ==
    /\ variant = "equity" /\ pc = "done"
    /\ closed_teams = 4..15
    /\ Len(patients) >= 2
    /\ Len(assignments) = Len(patients)

\* C4: two calls on the same arguments return the same assignments (team,
\* is_geographic and rationale of every patient), whatever order the list of
\* an ambiguous floor's teams comes out of its set in.
TwinRunsAgree ==
    pc = "done" => twin.assignments = assignments

\* the geographic teams of a floor, and the case of exactly one of two closed
GeoTeamSet(f) == UNION {ToSet(g) : g \in get_geographic_teams(f)}
OneOfTwoClosed(f) ==
    /\ Cardinality(GeoTeamSet(f)) = 2
    /\ Cardinality(GeoTeamSet(f) \ closed_teams) = 1
RemainingGeoTeam(f) == CHOOSE t \in GeoTeamSet(f) : t \notin closed_teams

\* the open regular teams that are not IMCU teams, and their least census
OpenRegularNonImcu ==
    (Teams \ closed_teams) \ (ToSet(IMCU_TEAMS) \cup ToSet(OVERFLOW_TEAMS))
LeastCensus(S) == CHOOSE m \in {Get(census, t) : t \in S} :
                      \A t \in S : m <= Get(census, t)

\* census plus new assignments of team t, plus 2 when t already got two
\* patients while an open regular team got none
Load(t) ==
    Get(census, t) + new_assignments[t]
        + (IF /\ new_assignments[t] >= 2
              /\ \E u \in (Teams \ closed_teams) \ ToSet(OVERFLOW_TEAMS) :
                    new_assignments[u] = 0
           THEN 2 ELSE 0)

ImcuSaturationFallsBack ==
    [][(/\ InLoop
        /\ variant = "equity"
        /\ current_patient.floor \in {IMCU, <<"3", "W">>, <<"3", "E">>}
        /\ \A t \in ToSet(IMCU_TEAMS) \ closed_teams : Get(census, t) >= IMCU_CAP
        /\ (Teams \ closed_teams) \ ToSet(IMCU_TEAMS) # {})
        => /\ placed_now
           /\ new_assignment.team \notin ToSet(IMCU_TEAMS)
           /\ ~new_assignment.is_geographic
           /\ new_assignment.reason[1] = "No geographic capacity for "]_vars

\* the three IMCU teams were open and full, and an IMCU patient was placed elsewhere
ImcuPatientPlacedElsewhere ==
    /\ variant = "equity" /\ pc = "done"
    /\ closed_teams = {}
    /\ \A t \in ToSet(IMCU_TEAMS) : Get(current_census, t) = IMCU_CAP
    /\ \E k \in 1..Len(assignments) :
          /\ assignments[k].patient.floor = IMCU
          /\ assignments[k].team \notin ToSet(IMCU_TEAMS)
          /\ ~assignments[k].is_geographic

EquityUnderCap == {t \in OpenRegularNonImcu : Get(census, t) < SOFT_CAP}
ScoredUnderCap ==
    {t \in (Teams \ closed_teams) \ ToSet(OVERFLOW_TEAMS) :
        /\ Get(census, t) < SOFT_CAP
        /\ t \in ToSet(IMCU_TEAMS) => Get(census, t) < IMCU_CAP - 1}

----------------------------------------------------------------------------
(* Properties of analyze_patients (SpecShuffle)                             *)

\* the geographic teams of an existing patient's floor
GeoOf(patient) == GeoTeamSet(patient.floor)

\* C11 as stated: for every closed-team set, when every patient's current
\* team is a geographic team of its floor, the needs-move list is empty and
\* the correctly-placed list is the input.
AllGeographicNothingMoves ==
    (pc = "analyzed" /\ \A k \in 1..Len(patients) : patients[k].current_team \in GeoOf(patients[k]))
        => (wrong_team = <<>> /\ ok_team = patients)

\* C11: when every patient's current team is a geographic team of its floor
\* that is not closed, the needs-move list is empty and the correctly-placed
\* list is the input.
AllAcceptableNothingMoves ==
    (pc = "analyzed"
        /\ \A k \in 1..Len(patients) :
              patients[k].current_team \in GeoOf(patients[k]) \ closed_teams)
        => (wrong_team = <<>> /\ ok_team = patients)

\* two patients, both on an open geographic team while another team is closed
NothingMoved ==
    /\ pc = "analyzed"
    /\ Len(patients) = 2
    /\ closed_teams = {5}
    /\ \A k \in 1..Len(patients) :
          patients[k].current_team \in GeoOf(patients[k]) \ closed_teams
    /\ ok_team = patients

\* C12: the two lists partition the input; a patient is correctly placed
\* iff its current team is a geographic team of its floor that is not closed;
\* a needs-move entry carries exactly those teams; a patient whose floor has
\* no geographic team needs a move and carries the empty list.
AnalysisPartitions ==
    pc = "analyzed" =>
        /\ Len(wrong_team) + Len(ok_team) = Len(patients)
        /\ \A k \in 1..Len(patients) :
              LET p == patients[k]
                  in_ok == \E j \in 1..Len(ok_team) : ok_team[j] = p
                  in_wrong == \E j \in 1..Len(wrong_team) : wrong_team[j][1] = p
              IN  /\ in_ok # in_wrong
                  /\ in_ok <=> p.current_team \in GeoOf(p) \ closed_teams
                  /\ GeoOf(p) = {} => in_wrong
        /\ \A j \in 1..Len(wrong_team) :
              /\ ToSet(wrong_team[j][2]) = GeoOf(wrong_team[j][1]) \ closed_teams
              /\ Len(wrong_team[j][2]) = Cardinality(ToSet(wrong_team[j][2]))
              /\ GeoOf(wrong_team[j][1]) = {} => wrong_team[j][2] = <<>>

\* one patient stays, one patient of a floor without teams has to move
OneStaysOneMoves ==
    /\ pc = "analyzed"
    /\ Len(ok_team) = 1
    /\ Len(wrong_team) = 1
    /\ wrong_team[1][1].floor = <<"2", "W">>
    /\ wrong_team[1][2] = <<>>

----------------------------------------------------------------------------
(* Further properties of optimize_placements                                *)

MissingEntryIsZero ==
    (pc = "done" /\ DOMAIN current_census # Teams) => twin.assignments = assignments

\* a call on a dict without teams 1, 10 and 14 placed a patient on team 10
PlacedOnMissingTeam ==
    /\ pc = "done"
    /\ DOMAIN current_census = Teams \ {1, 10, 14}
    /\ \E k \in 1..Len(assignments) : assignments[k].team = 10
    /\ twin.assignments = assignments

\* C15: a call on a census dict with a negative count returns no assignment.
NegativeCensusRejected ==
    (pc = "done" /\ \E t \in DOMAIN current_census : current_census[t] < 0)
        => assignments = <<>>

\* C16: in the scored variant, when every IMCU team starts with at most 10
\* patients, no IMCU team ends with more than 10, whatever tier placed the
\* patients and whatever teams are closed.
ScoredImcuHardCapHeld ==
    (variant = "scored" /\ \A t \in ToSet(IMCU_TEAMS) : Get(current_census, t) <= IMCU_CAP)
        => \A t \in ToSet(IMCU_TEAMS) : StartPlusAssigned(t) <= IMCU_CAP

\* with teams 4-15 closed, an IMCU team at 9 took its tenth patient
TenthSlotTaken ==
    /\ variant = "scored" /\ pc = "done"
    /\ closed_teams = 4..15
    /\ \E t \in ToSet(IMCU_TEAMS) :
          /\ Get(current_census, t) = IMCU_CAP - 1
          /\ StartPlusAssigned(t) = IMCU_CAP

\* C17 as stated: the scored variant skips a patient only when all 15 teams
\* are closed.
ScoredSkipsOnlyWhenAllClosed ==
    (variant = "scored" /\ pc = "done" /\ Teams \ closed_teams # {})
        => Len(assignments) = Len(patients)

\* the open teams that may take patient p: every non-IMCU team, and an IMCU
\* team below 10, or below 9 when p is not on 3W or IMCU
MayTake(p) ==
    {t \in Teams \ closed_teams :
        t \in ToSet(IMCU_TEAMS) =>
            Get(census, t) < (IF p.floor \in {<<"3", "W">>, IMCU}
                              THEN IMCU_CAP ELSE IMCU_CAP - 1)}

\* C17: the scored variant skips a patient exactly when no open team may
\* take it, i.e. when every open team is an IMCU team at its cap (10, or 9
\* for a patient that is not on 3W or IMCU); otherwise the patient receives
\* an assignment.
ScoredSkipsOnlyWhenNoneEligible ==
    [][(InLoop /\ variant = "scored") =>
          /\ placed_now <=> MayTake(current_patient) # {}
          /\ ~placed_now => (assignments' = assignments
                                /\ Len(warnings') = Len(warnings) + 1)]_vars

\* only the IMCU teams were open: one patient was placed, the other skipped
SkippedWithTeamsOpen ==
    /\ variant = "scored" /\ pc = "done"
    /\ closed_teams = 4..15
    /\ Len(assignments) = 1
    /\ Len(warnings) = 1

\* the band of a patient: 0 on 3W or IMCU, 1 without a floor or on a floor
\* without geographic teams, 2 on any other floor
Band(p) ==
    IF p.floor \in {<<"3", "W">>, IMCU} THEN 0
    ELSE IF p.floor = None \/ GeoTeamSet(p.floor) = {} THEN 1
    ELSE 2

\* a is not after b: a lower band, or the same band and, when both have a
\* floor label or neither has, the lower label or the same label and the
\* lower identifier
InPriorityOrder(a, b) ==
    \/ Band(a) < Band(b)
    \/ /\ Band(a) = Band(b)
       /\ (a.floor # None /\ b.floor # None) =>
              \/ StrLess(a.floor, b.floor)
              \/ a.floor = b.floor /\ a.identifier < b.identifier
       /\ (a.floor = None /\ b.floor = None) => a.identifier < b.identifier

\* C18: the scored variant processes the patients, and emits the
\* assignments, in priority order: 3W and IMCU patients, then the outliers,
\* then the other geographic patients, by floor label and identifier within
\* a band.
ProcessedInPriorityOrder ==
    (variant = "scored" /\ pc # "start") =>
        /\ \A j, k \in 1..Len(patients_sorted) :
              j < k => InPriorityOrder(patients_sorted[j], patients_sorted[k])
        /\ \A j, k \in 1..Len(assignments) :
              j < k => InPriorityOrder(assignments[j].patient, assignments[k].patient)
        /\ \A k \in 1..Len(patients) : \E j \in 1..Len(patients_sorted) :
              patients_sorted[j] = patients[k]

\* a 3E patient and an ED patient came in in that order and were assigned in
\* the reverse order
ReorderedByPriority ==
    /\ variant = "scored" /\ pc = "done"
    /\ Len(patients) = 2 /\ Len(assignments) = 2
    /\ patients[1].floor = <<"3", "E">>
    /\ patients[2].floor = None
    /\ assignments[1].patient = patients[2]
    /\ assignments[2].patient = patients[1]

\* the open teams that are not IMCU teams
OpenNonImcu == (Teams \ closed_teams) \ ToSet(IMCU_TEAMS)

\* the equity variant placed the patient on a non-IMCU team that already had
\* 14 or more
placed_over_soft_cap ==
    /\ InLoop /\ variant = "equity" /\ placed_now
    /\ new_assignment.team \notin ToSet(IMCU_TEAMS)
    /\ Get(census, new_assignment.team) >= SOFT_CAP

\* C19 as stated: the equity variant places a patient on a non-IMCU team at
\* 14 or more only when no open non-IMCU team is below 14.
SoftCapOnlyWithoutAlternative ==
    [][placed_over_soft_cap =>
          \A t \in OpenNonImcu : Get(census, t) >= SOFT_CAP]_vars

\* C19: the equity variant places a patient on a non-IMCU team at 14 or more
\* as geographic only when every open geographic team of the floor is at 14
\* or more and the least census of the open regular non-IMCU teams is less
\* than 4 below the team's, as a balance override only when every open
\* regular non-IMCU team is at 14 or more, and by the fallback only when
\* every open non-IMCU team is at 14 or more.
SoftCapExceededOnlyWhen ==
    [][placed_over_soft_cap =>
          IF new_assignment.is_geographic
          THEN /\ \A g \in GeoTeamSet(current_patient.floor) \ closed_teams :
                     Get(census, g) >= SOFT_CAP
               /\ LeastCensus(OpenRegularNonImcu)
                     > Get(census, new_assignment.team) - MAX_CENSUS_GAP
          ELSE IF new_assignment.reason[1] = "Balance override ("
          THEN \A t \in OpenRegularNonImcu : Get(census, t) >= SOFT_CAP
          ELSE \A t \in OpenNonImcu : Get(census, t) >= SOFT_CAP]_vars

\* a 5E patient went to team 5 at census 14 while other teams were at 13
PlacedOverSoftCap ==
    /\ variant = "equity" /\ pc = "done"
    /\ closed_teams = {}
    /\ Get(current_census, 5) = SOFT_CAP /\ Get(current_census, 10) = SOFT_CAP
    /\ Get(current_census, 4) = SOFT_CAP - 1
    /\ Len(assignments) = 1
    /\ assignments[1].team = 5
    /\ assignments[1].is_geographic

\* C20: an overflow team receives an assignment, in either variant, only
\* when every open regular non-IMCU team has census 14 or more.
OverflowOnlyWhenRegularFull ==
    [][(InLoop /\ placed_now /\ new_assignment.team \in ToSet(OVERFLOW_TEAMS)) =>
          \A t \in OpenRegularNonImcu : Get(census, t) >= SOFT_CAP]_vars

\* the regular teams were at 14 and a patient went to overflow team 14
PlacedOnOverflow ==
    /\ pc = "done"
    /\ closed_teams = {}
    /\ \A t \in OpenRegularNonImcu : Get(current_census, t) = SOFT_CAP
    /\ Get(current_census, 14) = 0
    /\ \E k \in 1..Len(assignments) : assignments[k].team = 14

----------------------------------------------------------------------------
(* Properties of the equity limit and the balance override (SpecSpread)     *)

\* team u is under its cap: census below 14, and below 10 for an IMCU team
UnderItsCap(u) ==
    /\ Get(census, u) < SOFT_CAP
    /\ (IsImcuTeam(u) => Get(census, u) < IMCU_CAP)

\* the open geographic teams of the floor of patient p
OpenGeoOf(p) ==
    (IF Truthy(p.floor) THEN GeoTeamSet(p.floor) ELSE {}) \ closed_teams

\* C21: the equity variant never assigns a patient to a geographic team of
\* the patient that already received 3 or more new patients while another
\* open geographic team of the patient received fewer and is under its cap.
EquityLimitHeld ==
    [][(InLoop /\ variant = "equity" /\ placed_now) =>
          LET t == new_assignment.team
              G == OpenGeoOf(current_patient)
          IN  ~ /\ t \in G
                /\ new_assignments[t] >= MAX_NEW_BEFORE_SPREAD
                /\ \E u \in G \ {t} :
                      /\ new_assignments[u] < new_assignments[t]
                      /\ UnderItsCap(u)]_vars

\* the teams the filter of lines 246-270 keeps for patient p
ValidGeoOf(p) ==
    UNION {ToSet(valid_geo_teams(
                     open_geo_teams(IF Truthy(p.floor) THEN g ELSE <<>>, closed_teams),
                     census, new_assignments)) :
           g \in get_geographic_teams(p.floor)}

\* with a valid geographic candidate, the patient goes to a least-loaded team
\* of R, not geographic, when the least-loaded valid geographic team would
\* then exceed the least census of R by more than 4, and to a least-loaded
\* valid geographic team, geographic, otherwise
BalanceRule(R) ==
    (InLoop /\ variant = "equity" /\ ValidGeoOf(current_patient) # {}) =>
        LET V == ValidGeoOf(current_patient)
            b == LeastCensus(V)
        IN  /\ placed_now
            /\ IF R # {} /\ b + 1 > LeastCensus(R) + MAX_CENSUS_GAP
               THEN /\ ~new_assignment.is_geographic
                    /\ new_assignment.team \in R
                    /\ Get(census, new_assignment.team) = LeastCensus(R)
               ELSE /\ new_assignment.is_geographic
                    /\ new_assignment.team \in V
                    /\ Get(census, new_assignment.team) = b

\* C22 as stated: the census gap is measured against the least-loaded open
\* non-IMCU team, overflow teams included.
BalanceAgainstOpenNonImcu == [][BalanceRule(OpenNonImcu)]_vars

\* C22: for a patient with a valid geographic candidate, if placing the
\* patient on the least-loaded valid geographic team would make its census
\* exceed that of the least-loaded open regular (not overflow) non-IMCU team
\* by more than 4, the patient goes to that team with is_geographic false;
\* otherwise, and when no regular non-IMCU team is open, the patient goes to
\* the least-loaded valid geographic team with is_geographic true.
BalanceAgainstOpenRegular == [][BalanceRule(OpenRegularNonImcu)]_vars

\* an IMCU patient went to team 4 at census 0 instead of team 2 at 9, after
\* earlier IMCU patients were placed geographically
OverriddenAfterGeographic ==
    /\ variant = "equity" /\ pc = "done"
    /\ Get(current_census, 2) = IMCU_CAP - 1 /\ Get(current_census, 4) = 0
    /\ \E k \in 1..Len(assignments) :
          /\ assignments[k].team = 4
          /\ ~assignments[k].is_geographic
          /\ assignments[k].patient.floor = IMCU
          /\ assignments[k].reason[1] = "Balance override ("
    /\ \E k \in 1..Len(assignments) :
          /\ assignments[k].is_geographic
          /\ assignments[k].patient.floor = IMCU

\* C23: in every Assignment of the equity variant, is_geographic is true
\* exactly when the team is one of the open geographic teams of the
\* patient's floor.
GeographicFlagMatchesTeam ==
    variant = "equity" =>
        \A k \in 1..Len(assignments) :
            assignments[k].is_geographic
                <=> assignments[k].team \in OpenGeoOf(assignments[k].patient)

----------------------------------------------------------------------------
(* Census accounting of one pass, either variant (Spec)                     *)

\* the Assignments so far that name team t
AssignedTo(t) == Cardinality({k \in 1..Len(assignments) : assignments[k].team = t})

\* C24: from a non-negative census, after every commit the running census of
\* each team is its starting census plus its new-assignment counter, the
\* counter being the number of Assignments naming the team; a commit raises
\* exactly one census by exactly 1, a skipped patient changes none, and no
\* census ever decreases.
CensusIsStartPlusNew ==
    [][/\ pc' \in {"loop", "done"} =>
             \A t \in Teams :
                 /\ Get(census', t) = Get(current_census', t) + new_assignments'[t]
                 /\ new_assignments'[t] = AssignedTo(t)'
       /\ InLoop =>
             IF placed_now
             THEN \E t \in Teams :
                     /\ new_assignment.team = t
                     /\ Get(census', t) = Get(census, t) + 1
                     /\ \A u \in Teams \ {t} : Get(census', u) = Get(census, u)
             ELSE \A u \in Teams : Get(census', u) = Get(census, u)]_vars

\* a call returned with two patients placed on the same team
TwoCommitsOnOneTeam ==
    /\ pc = "done"
    /\ \A t \in Teams : Get(current_census, t) >= 0
    /\ \E t \in Teams :
          /\ new_assignments[t] = 2
          /\ Get(census, t) = Get(current_census, t) + 2

----------------------------------------------------------------------------
(* The 10th IMCU slot in the scored variant (Spec)                          *)

\* C25: the scored variant never assigns a patient whose floor is neither
\* 3W nor IMCU to an IMCU team whose running census is 9 or more, so an IMCU
\* team goes from 9 to 10 only by a 3W or IMCU patient.
TenthSlotReserved ==
    [][(/\ InLoop /\ variant = "scored" /\ placed_now
        /\ IsImcuTeam(new_assignment.team)
        /\ Get(census, new_assignment.team) >= IMCU_CAP - 1)
          => current_patient.floor \in {<<"3", "W">>, IMCU}]_vars

\* a 3E patient, whose only geographic team with room was team 1 at 9, was
\* placed on a team outside Med 1-3
ThirdEastKeptOffTenthSlot ==
    /\ variant = "scored" /\ pc = "done"
    /\ closed_teams = {}
    /\ Get(current_census, 1) = IMCU_CAP - 1
    /\ Get(current_census, 2) = IMCU_CAP /\ Get(current_census, 3) = IMCU_CAP
    /\ Len(assignments) = 1
    /\ assignments[1].patient.floor = <<"3", "E">>
    /\ ~IsImcuTeam(assignments[1].team)
    /\ Get(census, 1) = IMCU_CAP - 1

----------------------------------------------------------------------------
(* Patients that need Med 1-3, scored variant (SpecNeed)                    *)

\* C27: the scored variant assigns a 3W or IMCU patient to a team outside
\* Med 1-3 only when no open IMCU team has a running census below 10.
NeedsImcuTeamWhileOneHasRoom ==
    [][(/\ InLoop /\ variant = "scored" /\ placed_now
        /\ is_imcu_patient(current_patient)
        /\ ~IsImcuTeam(new_assignment.team))
          => \A t \in ToSet(IMCU_TEAMS) \ closed_teams :
                 Get(census, t) >= IMCU_CAP]_vars

----------------------------------------------------------------------------
(* The valid geographic candidates of the equity variant (SpecSpread)       *)

\* C28: in the equity variant the list of valid geographic candidates is
\* empty only when every open geographic team of the patient is an IMCU team
\* at the hard cap, so a patient with an open non-IMCU geographic team has a
\* valid candidate, and no Assignment carries the rationale "Geographic (over
\* soft cap, ...)", "Geographic (equity override, ...)" or "Balance override
\* (... geo full ...)".
ValidEmptyOnlyAtHardCap ==
    variant = "equity" =>
        /\ InLoop =>
              /\ ValidGeoOf(current_patient) = {} =>
                    \A t \in OpenGeoOf(current_patient) :
                        IsImcuTeam(t) /\ Get(census, t) >= IMCU_CAP
              /\ (\E t \in OpenGeoOf(current_patient) : ~IsImcuTeam(t)) =>
                    ValidGeoOf(current_patient) # {}
        /\ \A k \in 1..Len(assignments) :
              /\ assignments[k].reason[1]
                    \notin {"Geographic (over soft cap, ", "Geographic (equity override, "}
              /\ ~ /\ assignments[k].reason[1] = "Balance override ("
                    /\ Len(assignments[k].reason) >= 3
                    /\ assignments[k].reason[3] = " geo full, Med "

\* the equity limit dropped team 5, which had taken 3 new patients, and left
\* the next 5E patient its sibling team 10 as the only valid candidate
EquityLimitLeftSibling ==
    /\ variant = "equity" /\ InLoop
    /\ current_patient.floor = <<"5", "E">>
    /\ new_assignments[5] >= MAX_NEW_BEFORE_SPREAD
    /\ 5 \in OpenGeoOf(current_patient)
    /\ ValidGeoOf(current_patient) = {10}

----------------------------------------------------------------------------
(* Properties of the recommendation sweep (SpecSweep)                       *)

\* the team recommended in this step, or NoTeam
recommended_now == recommendations'[Len(recommendations')][2]

\* the overflow teams of src/geo_placer_web.py that are open
OpenOverflowWeb == ToSet(OVERFLOW_TEAMS_web) \ closed_teams

\* C26: in the sweep of src/geo_placer_web.py, a patient with acceptable
\* teams is recommended an acceptable team, or an open overflow team only
\* when every acceptable team has a projected census of 10 or more; a patient
\* without acceptable teams is recommended the open overflow team of least
\* projected census, or nothing when every overflow team is closed; a closed
\* team is never recommended.
RecommendationWithinOptions ==
    [][(InSweep /\ variant = "web") =>
          LET acceptable == ToSet(sweep_item[2])
              rec == recommended_now
          IN  /\ rec \notin closed_teams
              /\ IF acceptable # {}
                 THEN \/ rec \in acceptable
                      \/ /\ rec \in OpenOverflowWeb
                         /\ \A t \in acceptable :
                               Get(projected_census, t) >= OVERFLOW_THRESHOLD
                 ELSE IF OpenOverflowWeb # {}
                 THEN /\ rec \in OpenOverflowWeb
                      /\ \A u \in OpenOverflowWeb :
                            Get(projected_census, rec) <= Get(projected_census, u)
                 ELSE rec = NoTeam]_vars

\* team 5 held ten patients, team 10 was closed, and a 5E patient on another
\* team was sent to an overflow team
SentToOverflowPastFullWard ==
    /\ variant = "web" /\ pc = "swept"
    /\ closed_teams = {10}
    /\ Get(team_census, 5) >= OVERFLOW_THRESHOLD
    /\ \E k \in 1..Len(recommendations) :
          /\ recommendations[k][1].floor = <<"5", "E">>
          /\ recommendations[k][2] \in OpenOverflowWeb

\* C29: in the sweep of src/geo_placer_web.py, every recommended team
\* differs from the patient's current team.
RecommendedTeamDiffers ==
    variant = "web" =>
        \A k \in 1..Len(recommendations) :
            recommendations[k][2] # NoTeam
                => recommendations[k][2] # recommendations[k][1].current_team

\* the sum of the projected census over teams 1..n
RECURSIVE ProjectedUpTo(_, _)
ProjectedUpTo(c, n) == IF n = 0 THEN 0 ELSE Get(c, n) + ProjectedUpTo(c, n - 1)

\* C30: in both copies of the sweep, starting from the census counted from
\* the current teams, after every step every projected census is
\* non-negative and their sum is the number of existing patients; a
\* recommended move adds 1 to the target team and takes 1 from the current
\* team, and a patient without a recommendation changes nothing.
ProjectedCensusConserved ==
    [][/\ pc' \in {"sweep", "swept"} =>
             /\ DOMAIN projected_census' \subseteq Teams
             /\ \A t \in Teams : Get(projected_census', t) >= 0
             /\ ProjectedUpTo(projected_census', Len(ALL_TEAMS)) = Len(patients')
       /\ (pc = "analyzed" /\ pc' = "sweep") =>
             \A t \in Teams :
                 Get(projected_census', t) =
                     Cardinality({k \in 1..Len(patients) : patients[k].current_team = t})
       /\ InSweep =>
             LET rec == recommended_now
                 cur == sweep_item[1].current_team
             IN  \A t \in Teams :
                     Get(projected_census', t) =
                         IF rec = NoTeam THEN Get(projected_census, t)
                         ELSE Get(projected_census, t)
                                  + (IF t = rec THEN 1 ELSE 0)
                                  - (IF t = cur THEN 1 ELSE 0)]_vars

\* a sweep ended with two patients moved, one team emptied
TwoMovedOneTeamEmptied ==
    /\ pc = "swept"
    /\ Len(recommendations) = 2
    /\ \A k \in 1..2 : recommendations[k][2] # NoTeam
    /\ recommendations[1][2] # recommendations[1][1].current_team
    /\ \E t \in Teams : Get(team_census, t) > 0 /\ Get(projected_census, t) = 0

====
